---- MODULE Spec2Model ----
(***************************************************************************)
(* A model of Fetchify (src/fetchify.js, the class of lines 153-379): the  *)
(* configuration merge, the interceptor chain of #request, and the         *)
(* dispatch of one network call with its cancellation timer.               *)
(*                                                                         *)
(* The host's request primitive (fetch), the timer service and the         *)
(* handlers the user registers are the environment: a handler's outcome    *)
(* (return, throw, return a deferred value) is chosen when it is invoked.  *)
(***************************************************************************)
EXTENDS Integers, Sequences, FiniteSets, TLC

\* ------------------------------------------------------------------ bounds

MaxInterceptors == 2   \* registrations per side of one client
MaxCalls        == 2   \* verb calls made over one behaviour
MaxInFlight     == 2   \* calls in flight at once (ConcSpec)
MaxMerges       == 2   \* merges applied to one pair of records (MergeSpec)
MaxStages       == 5   \* stages of a chain of the sequential specification

\* ------------------------------------------------------- values of the model

\* A configuration record is a function from the names of the fields it HAS to
\* their values; a field the object lacks is not in its DOMAIN.
Has(cfg, k) == k \in DOMAIN cfg

EmptyObj == [k \in {} |-> 0]

\* The value undefined, where a configuration record is expected.
Undefined == [k \in {"#undefined"} |-> TRUE]

Obj1(k, v) == [x \in {k} |-> v]

\* {...a, ...b}: the own keys of both, b's value where both have the key; the
\* spread of undefined adds nothing.
Spread(a, b) ==
    LET da == IF a = Undefined THEN {} ELSE DOMAIN a
        db == IF b = Undefined THEN {} ELSE DOMAIN b
    IN  [k \in da \cup db |-> IF k \in db THEN b[k] ELSE a[k]]

\* obj.headers: undefined when the object has no such key.
HeadersOf(cfg) == IF Has(cfg, "headers") THEN cfg["headers"] ELSE Undefined

\* Strings that are concatenated are sequences of characters.
StrUndefined == <<"undefined">>

\* The timeout the class starts with (line 161).
DefaultTimeout == 1000

\* The class field config (lines 157-162).
DefaultConfig ==
    [k \in {"headers", "timeout"} |->
        IF k = "headers" THEN Obj1("Content-Type", "application/json")
        ELSE DefaultTimeout]

\* ------------------------------------------------------------ the two merges

\* The merge whose headers are the first operand's alone.
mergeConfigs_instanceHeaders(config1, config2) ==
    LET top == Spread(config1, config2)
        h1  == IF config1 = Undefined THEN Undefined ELSE HeadersOf(config1)
        hs  == Spread(h1, Undefined)
    IN  [k \in DOMAIN top \cup {"headers"} |->
            IF k = "headers" THEN hs ELSE top[k]]

\* The merge that takes the headers of the second operand as a whole when it
\* has any.
mergeConfigs_shallow(config1, config2) ==
    LET top == Spread(config1, config2)
        h1  == IF config1 = Undefined THEN Undefined ELSE HeadersOf(config1)
        h2  == IF config2 = Undefined THEN Undefined ELSE HeadersOf(config2)
        hs  == IF h2 = Undefined THEN Spread(h1, h2) ELSE Spread(h2, Undefined)
    IN  [k \in DOMAIN top \cup {"headers"} |->
            IF k = "headers" THEN hs ELSE top[k]]

\* The merge in which the first operand's fields and header keys win.
mergeConfigs_firstWins(config1, config2) ==
    LET top == Spread(config2, config1)
        h1  == IF config1 = Undefined THEN Undefined ELSE HeadersOf(config1)
        h2  == IF config2 = Undefined THEN Undefined ELSE HeadersOf(config2)
        hs  == Spread(h2, h1)
    IN  [k \in DOMAIN top \cup {"headers"} |->
            IF k = "headers" THEN hs ELSE top[k]]

\* #mergeConfigs(config1, config2), lines 313-322: optional chaining on both
\* headers, so neither operand being undefined throws.
mergeConfigs(config1, config2) ==
    LET top == Spread(config1, config2)
        h1  == IF config1 = Undefined THEN Undefined ELSE HeadersOf(config1)
        h2  == IF config2 = Undefined THEN Undefined ELSE HeadersOf(config2)
        hs  == Spread(h1, h2)
    IN  [k \in DOMAIN top \cup {"headers"} |->
            IF k = "headers" THEN hs ELSE top[k]]

\* #mergeConfig with optional chaining on newConfig's headers: an undefined
\* newConfig adds nothing and nothing is thrown.
mergeConfig_optionalChaining(thisConfig, newConfig) ==
    LET top == Spread(thisConfig, newConfig)
        hs  == Spread(HeadersOf(thisConfig),
                      IF newConfig = Undefined THEN Undefined
                      ELSE HeadersOf(newConfig))
    IN  [threw |-> FALSE,
         v |-> [k \in DOMAIN top \cup {"headers"} |->
                   IF k = "headers" THEN hs ELSE top[k]]]

\* #mergeConfig with the headers of newConfig replacing those of this.config.
mergeConfig_replaceHeaders(thisConfig, newConfig) ==
    IF newConfig = Undefined
    THEN [threw |-> TRUE, v |-> EmptyObj]
    ELSE [threw |-> FALSE, v |-> Spread(thisConfig, newConfig)]

\* #mergeConfig with the operands of the spread exchanged.
mergeConfig_instanceWins(thisConfig, newConfig) ==
    IF newConfig = Undefined
    THEN [threw |-> TRUE, v |-> EmptyObj]
    ELSE LET top == Spread(newConfig, thisConfig)
             hs  == Spread(HeadersOf(thisConfig), HeadersOf(newConfig))
         IN  [threw |-> FALSE,
              v |-> [k \in DOMAIN top \cup {"headers"} |->
                        IF k = "headers" THEN hs ELSE top[k]]]

\* #mergeConfig without the spread of this.config: the fields newConfig omits
\* are lost.
mergeConfig_dropDefaults(thisConfig, newConfig) ==
    IF newConfig = Undefined
    THEN [threw |-> TRUE, v |-> EmptyObj]
    ELSE LET hs == Spread(HeadersOf(thisConfig), HeadersOf(newConfig))
         IN  [threw |-> FALSE,
              v |-> [k \in DOMAIN newConfig \cup {"headers"} |->
                        IF k = "headers" THEN hs ELSE newConfig[k]]]

\* #mergeConfig(newConfig), lines 300-309, with this.config as thisConfig. The
\* result is [threw, v]: newConfig.headers (line 306, no optional chaining)
\* raises a TypeError when newConfig is undefined.
mergeConfig(thisConfig, newConfig) ==
    IF newConfig = Undefined
    THEN [threw |-> TRUE, v |-> EmptyObj]
    ELSE LET top == Spread(thisConfig, newConfig)
             hs  == Spread(HeadersOf(thisConfig), HeadersOf(newConfig))
         IN  [threw |-> FALSE,
              v |-> [k \in DOMAIN top \cup {"headers"} |->
                        IF k = "headers" THEN hs ELSE top[k]]]

\* ------------------------------------------------------- object identities

\* Configuration records are JavaScript objects: a write through one reference
\* is seen through every other reference to the same object. An object is
\* named by the place that allocated it: the class field initialiser of a
\* client ("default"), the merge of its constructor ("create"), the merge of
\* call n of a client ("call"), a copy a handler made ("handler").
ObjId(site, cl, n, part) == [site |-> site, cl |-> cl, n |-> n, part |-> part]

\* A configuration object and the headers object it refers to, both new.
NewObjects(site, cl, n) ==
    [config |-> ObjId(site, cl, n, "config"),
     headers |-> ObjId(site, cl, n, "headers")]

\* The merge returning the headers object of this.config with the new keys
\* written into it.
mergeConfigObjects_sameHeaders(thisObj, fresh) ==
    [config |-> fresh.config, headers |-> thisObj.headers]

\* The merge assigning into this.config and returning it.
mergeConfigObjects_assign(thisObj, fresh) == thisObj

\* The objects #mergeConfig returns (lines 301 and 304): the result and its
\* headers are object literals, new objects that share nothing with
\* this.config (thisObj); fresh names them.
mergeConfigObjects(thisObj, fresh) == fresh

\* The objects of this.config of client cl: the class field (lines 157-162)
\* is replaced by the constructor's merge (line 170).
InstanceObjects(cl) ==
    mergeConfigObjects(NewObjects("default", cl, 0), NewObjects("create", cl, 0))

\* ------------------------------------------------- values flowing in a chain

\* The envelope { endPoint, config }; frozen: config is a non-extensible object
\* (an interceptor returned Object.freeze'd configuration); obj: the identities
\* of config and of config.headers.
Envelope(endPoint, cfg, frozen, obj) ==
    [kind |-> "env", endPoint |-> endPoint, config |-> cfg, frozen |-> frozen,
     obj |-> obj]

\* The response the request primitive resolved with, for the request sent.
Response(req) == [kind |-> "resp", of |-> req]

\* Any other value a handler returns: stage i's value (a placeholder, a
\* transformed response, an interceptor that forgot its return statement).
NewVal(i) == [kind |-> "val", by |-> i]

\* Errors: [kind, name, msg].
ThrownBy(i)  == [kind |-> "err", name |-> "Error", msg |-> [t |-> "thrown", by |-> i]]
TypeError    == [kind |-> "err", name |-> "TypeError", msg |-> [t |-> "type"]]
NetworkError == [kind |-> "err", name |-> "TypeError", msg |-> [t |-> "network"]]
AbortError   == [kind |-> "err", name |-> "AbortError", msg |-> [t |-> "abort"]]
\* new Error(`Request to ${endPoint} aborted due to timeout after ${timeout} ms`), line 285
TimeoutError(endPoint, timeout) ==
    [kind |-> "err", name |-> "Error",
     msg |-> [t |-> "timeout", endPoint |-> endPoint, timeout |-> timeout]]

NoHandler == "undefined"

\* One entry of the chain array of #request (lines 190-197).
Stage(kind, successHandler, errorHandler) ==
    [kind |-> kind, successHandler |-> successHandler, errorHandler |-> errorHandler]

\* { successHandler, errorHandler } as pushed by lines 362 and 367.
Interceptor(successHandler, errorHandler) ==
    [successHandler |-> successHandler, errorHandler |-> errorHandler]

\* ------------------------------------------------------------------- state

VARIABLES
    created,               \* client -> whether create() returned it
    config,                \* client -> this.config
    requestInterceptors,   \* client -> this.requestInterceptors
    responseInterceptors,  \* client -> this.responseInterceptors
    createError,           \* client -> whether the last create() for it threw
    createArg,             \* client -> the argument of the create() that made it
    calls,                 \* slot -> the call in that slot (see IdleCall)
    aborted,               \* the AbortControllers whose abort() was called
    ncalls,                \* verb calls made so far
    heap,                  \* object -> its content, for the merges applied
                           \* on their own (MergeSpec)
    merges,                \* the merges applied so far, with their results
    registered             \* client -> side -> the pairs the calls of
                           \* addRequestInterceptor / addResponseInterceptor
                           \* were given, in the order of the calls

vars == <<created, config, requestInterceptors, responseInterceptors,
          createError, createArg, calls, aborted, ncalls, heap, merges,
          registered>>

Clients == {"api", "other"}
Slots   == 1..MaxInFlight

\* A slot no call has used yet. Of a call:
\*   chain, idx   the stages, and the stage whose continuation runs next;
\*   nreq         the number of request interceptors when the verb was called;
\*   st, val      the state of the promise that stage waits for, and its value
\*                (while st is "pending": the input of the stage that pends);
\*   timer        "none", "pending", "fired" or "cleared";
\*   sent         the calls of the request primitive, [url, options];
\*   dres         the outcome of #dispatchRequest once it settled, with what
\*                the request primitive settled with (raw) and the state of
\*                the timer at that moment;
\*   failed       some handler has thrown or some promise of the chain rejected;
\*   rec          since the latest failure, an error handler has returned a
\*                value that is no rejection;
\*   slog         the stages whose success handler was invoked, in order;
\*   src          the handler invocation that produced val, when one did;
\*   ev           the handler invocations of the latest step of the call.
IdleCall ==
    [no |-> 0, client |-> "api", verb |-> "", endPoint |-> <<>>,
     tempConfig |-> EmptyObj, chain |-> <<>>, nreq |-> 0, idx |-> 0, st |-> "idle",
     val |-> NewVal(0), wait |-> "", timer |-> "none", timeout |-> 0,
     signal |-> 0, prim |-> "", sent |-> <<>>,
     dres |-> <<>>, failed |-> FALSE, rec |-> FALSE, slog |-> <<>>, src |-> <<>>, ev |-> <<>>]

InitProgram ==
    /\ created = [cl \in Clients |-> FALSE]
    /\ config = [cl \in Clients |-> DefaultConfig]
    /\ requestInterceptors = [cl \in Clients |-> <<>>]
    /\ responseInterceptors = [cl \in Clients |-> <<>>]
    /\ createError = [cl \in Clients |-> FALSE]
    /\ createArg = [cl \in Clients |-> EmptyObj]
    /\ calls = [c \in Slots |-> IdleCall]
    /\ aborted = {}
    /\ ncalls = 0
    /\ registered = [cl \in Clients |-> [request |-> <<>>, response |-> <<>>]]

Init == InitProgram /\ heap = EmptyObj /\ merges = <<>>

\* The last promise of the chain has settled: the call resolved or rejected.
Finished(k) == k.st \in {"fulfilled", "rejected"} /\ k.idx > Len(k.chain)

\* ------------------------------------------------------ create, registration

\* create(newConfig) (lines 372-375) and the constructor (169-171): the field
\* initialisers give the defaults and empty lists, then this.config is the
\* merge; when the merge throws, no client is returned.
Create(cl, newConfig) ==
    /\ ~created[cl]
    /\ LET m == mergeConfig(DefaultConfig, newConfig)
       IN  IF m.threw
           THEN /\ createError' = [createError EXCEPT ![cl] = TRUE]
                /\ UNCHANGED <<created, config, createArg>>
           ELSE /\ created' = [created EXCEPT ![cl] = TRUE]
                /\ createArg' = [createArg EXCEPT ![cl] = newConfig]
                /\ config' = [config EXCEPT ![cl] = m.v]
                /\ createError' = [createError EXCEPT ![cl] = FALSE]
    /\ UNCHANGED <<requestInterceptors, responseInterceptors, calls, aborted,
                   ncalls, heap, merges, registered>>

\* The pair put in front of the list.
push_unshift(list, pair) == <<pair>> \o list

\* The pair left out when the list has an equal one.
push_dedup(list, pair) ==
    IF \E i \in 1..Len(list) : list[i] = pair THEN list ELSE Append(list, pair)

\* list.push(pair), lines 362 and 367.
push(list, pair) == Append(list, pair)

\* The registration on a list that every client shares.
AddRequestInterceptor_shared(cl, successHandler, errorHandler) ==
    /\ created[cl]
    /\ Len(registered[cl].request) < MaxInterceptors
    /\ requestInterceptors' =
         [o \in Clients |->
            push(requestInterceptors[o], Interceptor(successHandler, errorHandler))]
    /\ registered' =
         [registered EXCEPT
            ![cl].request = Append(@, Interceptor(successHandler, errorHandler))]
    /\ UNCHANGED <<created, config, responseInterceptors, createError, createArg,
                   calls, aborted, ncalls, heap, merges>>

\* addRequestInterceptor(successHandler, errorHandler), lines 361-363.
AddRequestInterceptor(cl, successHandler, errorHandler) ==
    /\ created[cl]
    /\ Len(registered[cl].request) < MaxInterceptors
    /\ requestInterceptors' =
         [requestInterceptors EXCEPT
            ![cl] = push(@, Interceptor(successHandler, errorHandler))]
    /\ registered' =
         [registered EXCEPT
            ![cl].request = Append(@, Interceptor(successHandler, errorHandler))]
    /\ UNCHANGED <<created, config, responseInterceptors, createError, createArg,
                   calls, aborted, ncalls, heap, merges>>

\* The registration on a list that the chains of the calls in flight are
\* views of: the new interceptor joins them.
AddResponseInterceptor_live(cl, successHandler, errorHandler) ==
    /\ created[cl]
    /\ Len(registered[cl].response) < MaxInterceptors
    /\ responseInterceptors' =
         [responseInterceptors EXCEPT
            ![cl] = push(@, Interceptor(successHandler, errorHandler))]
    /\ registered' =
         [registered EXCEPT
            ![cl].response = Append(@, Interceptor(successHandler, errorHandler))]
    /\ calls' =
         [c \in Slots |->
            IF calls[c].st # "idle" /\ calls[c].client = cl
                   /\ calls[c].idx <= Len(calls[c].chain)
            THEN [calls[c] EXCEPT
                     !.chain = Append(@, Stage("response", successHandler,
                                               errorHandler))]
            ELSE calls[c]]
    /\ UNCHANGED <<created, config, requestInterceptors, createError, createArg,
                   aborted, ncalls, heap, merges>>

\* addResponseInterceptor(successHandler, errorHandler), lines 366-368.
AddResponseInterceptor(cl, successHandler, errorHandler) ==
    /\ created[cl]
    /\ Len(registered[cl].response) < MaxInterceptors
    /\ responseInterceptors' =
         [responseInterceptors EXCEPT
            ![cl] = push(@, Interceptor(successHandler, errorHandler))]
    /\ registered' =
         [registered EXCEPT
            ![cl].response = Append(@, Interceptor(successHandler, errorHandler))]
    /\ UNCHANGED <<created, config, requestInterceptors, createError, createArg,
                   calls, aborted, ncalls, heap, merges>>

\* ------------------------------------------------------ writes to objects

\* What a reference to the objects `obj`, whose content was cfg, shows once the
\* envelope r holds what its handler or the dispatch left in it: the same
\* configuration object shows r's configuration, the same headers object r's
\* headers.
SyncConfig(cfg, obj, r) ==
    IF r.kind # "env" THEN cfg
    ELSE IF obj.config = r.obj.config THEN r.config
    ELSE IF /\ obj.headers = r.obj.headers
            /\ Has(cfg, "headers") /\ Has(r.config, "headers")
         THEN [cfg EXCEPT !["headers"] = r.config["headers"]]
    ELSE cfg

\* The same for the envelope another call holds.
SyncCall(k, r) ==
    IF k.val.kind = "env"
    THEN [k EXCEPT !.val.config = SyncConfig(@, k.val.obj, r)]
    ELSE k

\* The step of call c ends with its record as k2: every reference to an
\* object of the envelope k2 holds shows what was written to it.
Effects(c, k2) ==
    /\ calls' = [d \in Slots |-> IF d = c THEN k2 ELSE SyncCall(calls[d], k2.val)]
    /\ config' = [cl \in Clients |->
                    SyncConfig(config[cl], InstanceObjects(cl), k2.val)]

\* ----------------------------------------------------- the merges on a heap

\* The configuration a reference shows: the object's fields, with the content
\* of the headers object where the field holds the reference to it.
Deref(h, ref) ==
    LET o == h[ref]
    IN  IF Has(o, "headers") THEN [o EXCEPT !["headers"] = h[@]] ELSE o

\* The heap with the configuration r written to the objects objs: the fields
\* to objs.config, the headers to objs.headers.
Alloc(h, objs, r) ==
    IF Has(r, "headers")
    THEN (objs.config :> [r EXCEPT !["headers"] = objs.headers])
            @@ (objs.headers :> r["headers"]) @@ h
    ELSE (objs.config :> r) @@ h

\* #mergeConfig taking the headers out of newConfig once it has merged them.
mergeConfigHeap_moveHeaders(h, thisRef, newRef, fresh) ==
    LET m == mergeConfig(Deref(h, thisRef), Deref(h, newRef))
        o == h[newRef]
    IN  [heap |-> (newRef :> [k \in DOMAIN o \ {"headers"} |-> o[k]])
                    @@ Alloc(h, fresh, m.v),
         ref |-> fresh.config, out |-> m.v]

\* #mergeConfig(newConfig), lines 300-309, on the objects of a heap: it reads
\* this.config, newConfig and the headers of both, and writes the merged
\* fields and headers to the objects of its two object literals.
mergeConfigHeap(h, thisRef, newRef, fresh) ==
    LET m    == mergeConfig(Deref(h, thisRef), Deref(h, newRef))
        objs == mergeConfigObjects(
                    [config |-> thisRef, headers |-> h[thisRef]["headers"]], fresh)
    IN  [heap |-> Alloc(h, objs, m.v), ref |-> objs.config, out |-> m.v]

\* #mergeConfigs(config1, config2), lines 313-322, on the objects of a heap:
\* the result and its headers are the objects of the literals of lines 314
\* and 317.
mergeConfigsHeap(h, ref1, ref2, fresh) ==
    LET r == mergeConfigs(Deref(h, ref1), Deref(h, ref2))
    IN  [heap |-> Alloc(h, fresh, r), ref |-> fresh.config, out |-> r]

\* One merge as recorded: the operation, the references it was given, the
\* reference it returned and the configuration that one showed then.
Merged(op, a, b, m) == [op |-> op, a |-> a, b |-> b, ref |-> m.ref, out |-> m.out]

\* this.config and the argument record of the merges applied on their own.
ThisRef == InstanceObjects("api").config
ArgObjects == NewObjects("arg", "api", 0)
ArgRef == ArgObjects.config

\* The configuration objects a merge can be given: the two above and the
\* results of the merges so far.
ConfigRefs == {ThisRef, ArgRef} \cup {merges[i].ref : i \in 1..Len(merges)}

\* this.#mergeConfig(newConfig) with the argument record as newConfig.
MergeWithInstance ==
    /\ Len(merges) < MaxMerges
    /\ ThisRef \in DOMAIN heap
    /\ LET m == mergeConfigHeap(heap, ThisRef, ArgRef,
                                 NewObjects("merge", "api", Len(merges) + 1))
       IN  /\ heap' = m.heap
           /\ merges' = Append(merges, Merged("mergeConfig", ThisRef, ArgRef, m))
    /\ UNCHANGED <<created, config, requestInterceptors, responseInterceptors,
                   createError, createArg, calls, aborted, ncalls, registered>>

\* this.#mergeConfigs(config1, config2).
MergeTwo(ref1, ref2) ==
    /\ Len(merges) < MaxMerges
    /\ ref1 \in DOMAIN heap /\ ref2 \in DOMAIN heap
    /\ LET m == mergeConfigsHeap(heap, ref1, ref2,
                                  NewObjects("merge", "api", Len(merges) + 1))
       IN  /\ heap' = m.heap
           /\ merges' = Append(merges, Merged("mergeConfigs", ref1, ref2, m))
    /\ UNCHANGED <<created, config, requestInterceptors, responseInterceptors,
                   createError, createArg, calls, aborted, ncalls, registered>>

\* ------------------------------------------------------------- verb, #request

Verbs == {"GET", "POST", "PUT", "DELETE", "PATCH"}

\* The chain with the dispatch spliced in before the request interceptors.
BuildChain_dispatchFirst(cl) ==
    <<Stage("dispatch", "dispatchRequest", NoHandler)>>
    \o [i \in 1..Len(requestInterceptors[cl]) |->
        Stage("request", requestInterceptors[cl][i].successHandler,
              requestInterceptors[cl][i].errorHandler)]
    \o [i \in 1..Len(responseInterceptors[cl]) |->
        Stage("response", responseInterceptors[cl][i].successHandler,
              responseInterceptors[cl][i].errorHandler)]

\* The chain with the dispatch spliced in after the response interceptors.
BuildChain_dispatchLast(cl) ==
    [i \in 1..Len(requestInterceptors[cl]) |->
        Stage("request", requestInterceptors[cl][i].successHandler,
              requestInterceptors[cl][i].errorHandler)]
    \o [i \in 1..Len(responseInterceptors[cl]) |->
        Stage("response", responseInterceptors[cl][i].successHandler,
              responseInterceptors[cl][i].errorHandler)]
    \o <<Stage("dispatch", "dispatchRequest", NoHandler)>>

\* The chain with the request interceptors in reverse order of registration.
BuildChain_reversed(cl) ==
    [i \in 1..Len(requestInterceptors[cl]) |->
        LET r == requestInterceptors[cl][Len(requestInterceptors[cl]) + 1 - i]
        IN  Stage("request", r.successHandler, r.errorHandler)]
    \o <<Stage("dispatch", "dispatchRequest", NoHandler)>>
    \o [i \in 1..Len(responseInterceptors[cl]) |->
        Stage("response", responseInterceptors[cl][i].successHandler,
              responseInterceptors[cl][i].errorHandler)]

\* The chain array of #request, lines 190-197.
BuildChain(cl) ==
    [i \in 1..Len(requestInterceptors[cl]) |->
        Stage("request", requestInterceptors[cl][i].successHandler,
              requestInterceptors[cl][i].errorHandler)]
    \o <<Stage("dispatch", "dispatchRequest", NoHandler)>>
    \o [i \in 1..Len(responseInterceptors[cl]) |->
        Stage("response", responseInterceptors[cl][i].successHandler,
              responseInterceptors[cl][i].errorHandler)]

\* The config with the method spread first, so that tempConfig's own wins.
VerbConfig_tempWins(tempConfig, method) ==
    Spread(Obj1("method", method),
           IF tempConfig = Undefined THEN EmptyObj ELSE tempConfig)

\* { ...tempConfig, method: 'GET' } of a verb (lines 333, 339, 345, 351, 357),
\* with tempConfig = {} when the argument is undefined.
VerbConfig(tempConfig, method) ==
    Spread(IF tempConfig = Undefined THEN EmptyObj ELSE tempConfig,
           Obj1("method", method))

\* get/post/put/delete/patch (lines 331-358) and the synchronous part of
\* #request (lines 180-225): tempConfig defaults to {} when undefined, the
\* verb's method is spread last, the merge with this.config seeds the chain.
\* A finished call's slot is used again.
Verb(c, cl, verb, endPoint, tempConfig) ==
    /\ created[cl]
    /\ ncalls < MaxCalls
    /\ calls[c].st = "idle" \/ Finished(calls[c])
    /\ LET cfg  == VerbConfig(tempConfig, verb)
           finalConfig == mergeConfig(config[cl], cfg).v
       IN  calls' = [calls EXCEPT ![c] =
               [IdleCall EXCEPT
                   !.no = ncalls + 1, !.client = cl, !.verb = verb,
                   !.endPoint = endPoint, !.tempConfig = tempConfig,
                   !.chain = BuildChain(cl),
                   !.nreq = Len(requestInterceptors[cl]), !.idx = 1, !.st = "fulfilled",
                   !.val = Envelope(endPoint, finalConfig, FALSE,
                                    mergeConfigObjects(InstanceObjects(cl),
                                        NewObjects("call", cl, ncalls + 1)))]]
    /\ ncalls' = ncalls + 1
    /\ UNCHANGED <<created, config, requestInterceptors, responseInterceptors,
                   createError, createArg, aborted, heap, merges, registered>>

\* --------------------------------------------------------- #dispatchRequest

\* config.timeout || this.config.timeout || 0, line 234: a missing field and
\* the number 0 are both falsy.
Falsy(cfg, k) == ~Has(cfg, k) \/ cfg[k] = 0

EffectiveTimeout(thisConfig, cfg) ==
    IF ~Falsy(cfg, "timeout") THEN cfg["timeout"]
    ELSE IF ~Falsy(thisConfig, "timeout") THEN thisConfig["timeout"]
    ELSE 0

\* The URL with one of the two slashes dropped where the base URL ends with
\* one and the endpoint starts with one.
Url_normalised(newConfig, endPoint) ==
    LET base == IF Has(newConfig, "baseURL") THEN newConfig["baseURL"]
                ELSE StrUndefined
    IN  IF /\ Len(base) > 0 /\ Len(endPoint) > 0
           /\ base[Len(base)] = "/" /\ endPoint[1] = "/"
        THEN base \o Tail(endPoint)
        ELSE base \o endPoint

\* newConfig.baseURL + endPoint, line 279.
Url(newConfig, endPoint) ==
    (IF Has(newConfig, "baseURL") THEN newConfig["baseURL"] ELSE StrUndefined)
        \o endPoint

\* #dispatchRequest keeping a signal the envelope's config already has.
dispatchRequest_keepSignal(thisConfig, v, signal) ==
    IF v.kind # "env"
    THEN [threw |-> TRUE, err |-> TypeError, timerSet |-> FALSE, timeout |-> 0,
          url |-> <<>>, options |-> EmptyObj, config |-> EmptyObj]
    ELSE LET timeout == EffectiveTimeout(thisConfig, v.config)
             signed  == IF Has(v.config, "signal") THEN v.config
                        ELSE Spread(v.config, Obj1("signal", signal))
             newConfig == mergeConfigs(thisConfig, signed)
         IN  IF v.frozen
             THEN [threw |-> TRUE, err |-> TypeError, timerSet |-> timeout # 0,
                   timeout |-> timeout, url |-> <<>>, options |-> EmptyObj,
                   config |-> v.config]
             ELSE [threw |-> FALSE, err |-> TypeError, timerSet |-> timeout # 0,
                   timeout |-> timeout, url |-> Url(newConfig, v.endPoint),
                   options |-> newConfig, config |-> signed]

\* The synchronous part of #dispatchRequest({ endPoint, config }), lines
\* 230-279, on input v with the call's own controller `signal`:
\*   threw: the function rejected before it reached fetch, with err;
\*   timerSet: setTimeout was called (line 239) before that;
\*   url, options: what fetch is called with otherwise;
\*   config: the envelope's config after line 245 wrote the signal into it.
\* config.timeout throws when v has no config; config.signal = ... (line 245)
\* throws in strict code when config is not extensible.
dispatchRequest(thisConfig, v, signal) ==
    IF v.kind # "env"
    THEN [threw |-> TRUE, err |-> TypeError, timerSet |-> FALSE, timeout |-> 0,
          url |-> <<>>, options |-> EmptyObj, config |-> EmptyObj]
    ELSE LET timeout == EffectiveTimeout(thisConfig, v.config)
             signed  == Spread(v.config, Obj1("signal", signal))
             newConfig == mergeConfigs(thisConfig, signed)
         IN  IF v.frozen
             THEN [threw |-> TRUE, err |-> TypeError, timerSet |-> timeout # 0,
                   timeout |-> timeout, url |-> <<>>, options |-> EmptyObj,
                   config |-> v.config]
             ELSE [threw |-> FALSE, err |-> TypeError, timerSet |-> timeout # 0,
                   timeout |-> timeout, url |-> Url(newConfig, v.endPoint),
                   options |-> newConfig, config |-> signed]

\* The catch block without the translation of the AbortError.
catchError_rethrow(error, endPoint, timeout) == error

\* The catch block reporting every failure as a timeout.
catchError_always(error, endPoint, timeout) == TimeoutError(endPoint, timeout)

\* The catch block, lines 282-289.
catchError(error, endPoint, timeout) ==
    IF error.name = "AbortError" THEN TimeoutError(endPoint, timeout) ELSE error

\* No finally block: the timer is left as it is.
finallyClear_never(timer) == timer

\* The finally block, lines 290-295: clearTimeout of a timer that fired or was
\* never set changes nothing.
finallyClear(timer) == IF timer = "pending" THEN "cleared" ELSE timer

\* One handler invocation: handler "success" or "error" of stage i was called
\* with arg and ended as t ("return", "throw", "deferred") with value v; handler
\* "deferred" is the settling of the deferred value stage i's handler returned.
Event(i, handler, arg, t, v) ==
    [stage |-> i, handler |-> handler, arg |-> arg, t |-> t, v |-> v]

\* A rejection left for the error continuation of the stage that produced it.
Settle_ownStage(k, st, v) ==
    [k EXCEPT !.st = st, !.val = v,
              !.idx = IF st = "rejected" THEN @ ELSE @ + 1, !.wait = "",
              !.failed = @ \/ st = "rejected",
              !.rec = IF st = "rejected" THEN FALSE ELSE @]

\* The promise of stage k.idx settles: the next stage's continuation is next.
Settle(k, st, v) ==
    [k EXCEPT !.st = st, !.val = v, !.idx = @ + 1, !.wait = "",
              !.failed = @ \/ st = "rejected",
              !.rec = IF st = "rejected" THEN FALSE ELSE @]

CurStage(k) == k.chain[k.idx]

Running(k) == k.st \in {"fulfilled", "rejected"} /\ k.idx <= Len(k.chain)

\* The signal of a controller the caller made and put in a config as `signal`
\* (the calls of the program are numbered from 1).
CallerSignal == 0

\* One controller that every dispatch of the program uses.
NewAbortController_shared(k) == 0

\* new AbortController(), line 233: a controller of this dispatch alone, named
\* by the number of the call.
NewAbortController(k) == k.no

\* The success continuation (lines 204-206) of the dispatch stage: the call of
\* #dispatchRequest up to its await. prim is how the request primitive will
\* behave: "settles" (on its own, at some time) or "hangs" (it never settles
\* on its own and rejects with an AbortError once its signal is aborted).
DispatchStart(c, prim) ==
    LET k == calls[c]
    IN  /\ Running(k) /\ k.st = "fulfilled"
        /\ CurStage(k).kind = "dispatch"
        /\ LET d  == dispatchRequest(config[k.client], k.val, NewAbortController(k))
               e  == Event(k.idx, "success", k.val,
                           IF d.threw THEN "throw" ELSE "deferred",
                           IF d.threw THEN d.err ELSE k.val)
               k1 == [k EXCEPT !.timer = IF d.timerSet THEN "pending" ELSE "none",
                               !.timeout = d.timeout,
                               !.signal = NewAbortController(k),
                               !.slog = Append(@, k.idx), !.ev = <<e>>]
           IN  Effects(c,
                 IF d.threw
                 THEN [Settle(k1, "rejected", d.err) EXCEPT
                          !.dres = <<[st |-> "rejected", val |-> d.err,
                                      raw |-> d.err, timer |-> k1.timer]>>,
                          !.src = <<e>>]
                 ELSE [k1 EXCEPT !.st = "pending", !.wait = "fetch", !.prim = prim,
                          !.val.config = d.config,
                          !.sent = Append(@, [url |-> d.url, options |-> d.options])])
        /\ UNCHANGED <<created, requestInterceptors, responseInterceptors,
                       createError, createArg, aborted, ncalls, heap, merges, registered>>

\* The timer's callback, lines 239-241: abortController.abort().
TimerFire(c) ==
    /\ calls[c].timer = "pending"
    /\ calls' = [calls EXCEPT ![c] = [@ EXCEPT !.timer = "fired", !.ev = <<>>]]
    /\ aborted' = aborted \cup {calls[c].signal}
    /\ UNCHANGED <<created, config, requestInterceptors, responseInterceptors,
                   createError, createArg, ncalls, heap, merges, registered>>

\* #dispatchRequest returning a value it made from the response.
DispatchSettle_parsed(k, st, v) ==
    LET out == IF st = "rejected" THEN catchError(v, k.val.endPoint, k.timeout)
               ELSE NewVal(k.idx)
        e   == Event(k.idx, "deferred", k.val,
                     IF st = "fulfilled" THEN "return" ELSE "throw", out)
    IN  [Settle(k, st, out) EXCEPT
            !.timer = finallyClear(k.timer),
            !.dres = <<[st |-> st, val |-> out, raw |-> v, timer |-> k.timer]>>,
            !.src = <<e>>, !.ev = <<e>>]

\* #dispatchRequest after its await: fetch settled with `st` and `v`.
DispatchSettle(k, st, v) ==
    LET out == IF st = "rejected" THEN catchError(v, k.val.endPoint, k.timeout) ELSE v
        e   == Event(k.idx, "deferred", k.val,
                     IF st = "fulfilled" THEN "return" ELSE "throw", out)
    IN  [Settle(k, st, out) EXCEPT
            !.timer = finallyClear(k.timer),
            !.dres = <<[st |-> st, val |-> out, raw |-> v, timer |-> k.timer]>>,
            !.src = <<e>>, !.ev = <<e>>]

\* fetch resolves (lines 279-280).
FetchResolve(c) ==
    LET k == calls[c]
    IN  /\ k.st = "pending" /\ k.wait = "fetch" /\ k.prim = "settles"
        /\ calls' = [calls EXCEPT ![c] =
                        DispatchSettle(k, "fulfilled", Response(k.sent[Len(k.sent)]))]
        /\ UNCHANGED <<created, config, requestInterceptors, responseInterceptors,
                       createError, createArg, aborted, ncalls, heap, merges, registered>>

\* fetch rejects with a failure of its own (lines 282-289).
FetchReject(c) ==
    LET k == calls[c]
    IN  /\ k.st = "pending" /\ k.wait = "fetch" /\ k.prim = "settles"
        /\ calls' = [calls EXCEPT ![c] = DispatchSettle(k, "rejected", NetworkError)]
        /\ UNCHANGED <<created, config, requestInterceptors, responseInterceptors,
                       createError, createArg, aborted, ncalls, heap, merges, registered>>

\* fetch rejects with an AbortError because the signal it was given is aborted.
FetchAbort(c) ==
    LET k == calls[c]
    IN  /\ k.st = "pending" /\ k.wait = "fetch"
        /\ k.sent[Len(k.sent)].options["signal"] \in aborted
        /\ calls' = [calls EXCEPT ![c] = DispatchSettle(k, "rejected", AbortError)]
        /\ UNCHANGED <<created, config, requestInterceptors, responseInterceptors,
                       createError, createArg, aborted, ncalls, heap, merges, registered>>

\* ------------------------------------------------ the continuations of a stage

\* What a handler does when it is invoked: it returns v, throws v, or returns a
\* deferred value that is still pending.
Outcome(t, v) == [t |-> t, v |-> v]

\* A request interceptor's changes to the envelope it returns: "freeze",
\* "mutHeader" and "mutField" change the objects it was given in place
\* (Object.freeze(config), config.headers.Authorization = ..., config.tag =
\* ...), and so do "setSignal" (config.signal = a signal of the caller's) and
\* "setFields" (config.baseURL, config.timeout and config.headers.A are
\* assigned) and "delHeader" (delete config.headers.A); "setHeader" returns
\* copies with the header added, "setEndPoint" an envelope with another
\* endpoint, "newConfig" an envelope with a config of the handler's own ({
\* method: "GET", headers: {} }).
ApplyXform(x, v, i) ==
    CASE x = "freeze" -> [v EXCEPT !.frozen = TRUE]
      [] x = "setHeader" ->
            [v EXCEPT !.config = Spread(@, Obj1("headers",
                          Spread(HeadersOf(@), Obj1("Authorization", "token")))),
                      !.obj = NewObjects("handler", @.config.cl, @.config.n)]
      [] x = "mutHeader" ->
            [v EXCEPT !.config = Spread(@, Obj1("headers",
                          Spread(HeadersOf(@), Obj1("Authorization", "token"))))]
      [] x = "mutField" -> [v EXCEPT !.config = Spread(@, Obj1("tag", i))]
      [] x = "setSignal" ->
            [v EXCEPT !.config = Spread(@, Obj1("signal", CallerSignal))]
      [] x = "delHeader" ->
            [v EXCEPT !.config = Spread(@, Obj1("headers",
                          [h \in DOMAIN HeadersOf(@) \ {"A"} |-> HeadersOf(@)[h]]))]
      [] x = "newConfig" ->
            [v EXCEPT !.config = ("method" :> "GET") @@ ("headers" :> EmptyObj),
                      !.obj = NewObjects("handler", @.config.cl, @.config.n)]
      [] x = "setEndPoint" -> [v EXCEPT !.endPoint = <<"/", "b">>]
      [] x = "setFields" ->
            [v EXCEPT !.config =
                Spread(@, ("baseURL" :> <<"i">>) @@ ("timeout" :> 0)
                          @@ ("headers" :> Spread(HeadersOf(@), Obj1("A", "9"))))]
      [] OTHER -> NewVal(i)

\* The values a success handler may return for input v: v itself, or another.
SuccessReturns(stage, i, v, xf) ==
    {v} \cup {ApplyXform(x, v, i) :
                x \in IF stage.kind = "request" /\ v.kind = "env" THEN xf ELSE {"new"}}

SuccessOutcomes(stage, i, v, xf) ==
    {Outcome("return", r) : r \in SuccessReturns(stage, i, v, xf)}
        \cup {Outcome("throw", ThrownBy(i)), Outcome("deferred", v)}

\* An error handler given e: it returns a placeholder, throws e again or an
\* error of its own, or returns a deferred value.
ErrorOutcomes(i, e) ==
    {Outcome("return", NewVal(i)), Outcome("throw", e),
     Outcome("throw", ThrownBy(i)), Outcome("deferred", e)}

\* The promise returned by then() after its callback's handler was called with
\* arg and ended with outcome o; evs are the invocations before it in this step.
AfterHandler(k, handler, arg, o, evs) ==
    LET e  == Event(k.idx, handler, arg, o.t, o.v)
        k1 == [k EXCEPT !.ev = Append(evs, e)]
    IN  CASE o.t = "return" ->
                [Settle(k1, "fulfilled", o.v) EXCEPT
                    !.src = IF o.v = arg /\ handler = "success" THEN @ ELSE <<e>>,
                    !.rec = @ \/ handler = "error"]
          [] o.t = "throw" ->
                [Settle(k1, "rejected", o.v) EXCEPT
                    !.src = IF o.v = arg /\ handler = "error" THEN @ ELSE <<e>>]
          [] o.t = "deferred" -> [k1 EXCEPT !.st = "pending", !.wait = handler]

\* The success continuation without its try/catch: a throw of the success
\* handler rejects the stage, whether or not it has an error handler.
catchThrown_noCatch(k, error, oe) ==
    LET e == Event(k.idx, "success", k.val, "throw", error)
    IN  [Settle(k, "rejected", error) EXCEPT !.src = <<e>>, !.ev = <<e>>]

\* The catch block of the success continuation, lines 208-215: the success
\* handler threw `error`; oe is what the error handler does, when there is one.
catchThrown(k, error, oe) ==
    LET e == Event(k.idx, "success", k.val, "throw", error)
    IN  IF CurStage(k).errorHandler # NoHandler
        THEN AfterHandler([k EXCEPT !.failed = TRUE, !.rec = FALSE, !.src = <<e>>],
                          "error", error, oe, <<e>>)
        ELSE [Settle(k, "rejected", error) EXCEPT !.src = <<e>>, !.ev = <<e>>]

\* The error continuation calling the error handler and dropping its result.
onRejected_noRecover(k, oe) ==
    IF CurStage(k).errorHandler # NoHandler
    THEN LET e == Event(k.idx, "error", k.val, oe.t, oe.v)
         IN  [Settle(k, "rejected", k.val) EXCEPT !.ev = <<e>>, !.src = <<e>>]
    ELSE [Settle(k, "rejected", k.val) EXCEPT !.ev = <<>>]

\* The error continuation resolving with undefined when the stage has no
\* error handler.
onRejected_swallow(k, oe) ==
    IF CurStage(k).errorHandler # NoHandler
    THEN AfterHandler(k, "error", k.val, oe, <<>>)
    ELSE [Settle(k, "fulfilled", NewVal(0)) EXCEPT !.ev = <<>>]

\* The error continuation rejecting with an error of its own when the stage
\* has no error handler.
onRejected_wrap(k, oe) ==
    IF CurStage(k).errorHandler # NoHandler
    THEN AfterHandler(k, "error", k.val, oe, <<>>)
    ELSE [Settle(k, "rejected", ThrownBy(k.idx)) EXCEPT !.ev = <<>>]

\* The error continuation rejecting with whatever the error handler returned.
onRejected_rejectResult(k, oe) ==
    IF CurStage(k).errorHandler # NoHandler
    THEN LET e == Event(k.idx, "error", k.val, oe.t, oe.v)
         IN  [Settle(k, "rejected", oe.v) EXCEPT !.ev = <<e>>, !.src = <<e>>]
    ELSE [Settle(k, "rejected", k.val) EXCEPT !.ev = <<>>]

\* The error continuation of a dispatch stage that issues the request all the
\* same before it passes the rejection on.
onRejected_dispatchAnyway(k, oe) ==
    IF CurStage(k).errorHandler # NoHandler
    THEN AfterHandler(k, "error", k.val, oe, <<>>)
    ELSE IF CurStage(k).kind = "dispatch"
    THEN [Settle(k, "rejected", k.val) EXCEPT
             !.ev = <<>>, !.signal = k.no, !.timer = "pending",
             !.sent = Append(@, [url |-> <<>>, options |-> EmptyObj])]
    ELSE [Settle(k, "rejected", k.val) EXCEPT !.ev = <<>>]

\* The error continuation, lines 216-223.
onRejected(k, oe) ==
    IF CurStage(k).errorHandler # NoHandler
    THEN AfterHandler(k, "error", k.val, oe, <<>>)
    ELSE [Settle(k, "rejected", k.val) EXCEPT !.ev = <<>>]

\* The success continuation of an interceptor's stage, lines 204-215.
OnFulfilled(c, xf) ==
    LET k == calls[c]
    IN  /\ Running(k) /\ k.st = "fulfilled"
        /\ CurStage(k).kind # "dispatch"
        /\ \E o \in SuccessOutcomes(CurStage(k), k.idx, k.val, xf) :
              LET k1 == [k EXCEPT !.slog = Append(@, k.idx)]
              IN  IF o.t = "throw"
                  THEN \E oe \in ErrorOutcomes(k.idx, o.v) :
                          /\ CurStage(k).errorHandler = NoHandler
                                => oe = Outcome("throw", o.v)
                          /\ Effects(c, catchThrown(k1, o.v, oe))
                  ELSE Effects(c, AfterHandler(k1, "success", k.val, o, <<>>))
        /\ UNCHANGED <<created, requestInterceptors, responseInterceptors,
                       createError, createArg, aborted, ncalls, heap, merges, registered>>

\* The error continuation of any stage, lines 216-223.
OnRejected(c) ==
    LET k == calls[c]
    IN  /\ Running(k) /\ k.st = "rejected"
        /\ \E oe \in ErrorOutcomes(k.idx, k.val) :
              /\ CurStage(k).errorHandler = NoHandler => oe = Outcome("throw", k.val)
              /\ calls' = [calls EXCEPT ![c] = onRejected(k, oe)]
        /\ UNCHANGED <<created, config, requestInterceptors, responseInterceptors,
                       createError, createArg, aborted, ncalls, heap, merges, registered>>

\* A deferred value a handler returned settles; then() adopts its state.
DeferredSettle(c, xf) ==
    LET k == calls[c]
    IN  /\ k.st = "pending" /\ k.wait \in {"success", "error"}
        /\ \E o \in IF k.wait = "success"
                    THEN {Outcome("return", r) :
                            r \in SuccessReturns(CurStage(k), k.idx, k.val, xf)}
                         \cup {Outcome("throw", ThrownBy(k.idx))}
                    ELSE {Outcome("return", NewVal(k.idx)), Outcome("throw", k.val),
                          Outcome("throw", ThrownBy(k.idx))} :
              LET e == Event(k.idx, "deferred", k.val, o.t, o.v)
                  same == o.v = k.val /\ o.t = (IF k.wait = "success" THEN "return"
                                                                     ELSE "throw")
              IN  Effects(c,
                    [Settle(k, IF o.t = "return" THEN "fulfilled" ELSE "rejected", o.v)
                        EXCEPT !.ev = <<e>>, !.src = IF same THEN @ ELSE <<e>>,
                               !.rec = @ \/ (k.wait = "error" /\ o.t = "return")])
        /\ UNCHANGED <<created, requestInterceptors, responseInterceptors,
                       createError, createArg, aborted, ncalls, heap, merges, registered>>

\* ----------------------------------------------------------- specifications

\* No call is between its verb and its settling.
NoCallInFlight == \A c \in Slots : calls[c].st = "idle" \/ Finished(calls[c])

\* The inputs of the sequential specification.
FlowCreateArgs == {EmptyObj, Obj1("timeout", 0)}
FlowTempConfigs == {EmptyObj}
FlowEndPoints == {<<"/", "a">>}
FlowXforms == {"new", "freeze"}
FlowErrorHandlers == {NoHandler, "g"}

\* The chain of a call of client cl, with one more interceptor, would have at
\* most MaxStages stages.
ChainRoom(cl) ==
    Len(requestInterceptors[cl]) + Len(responseInterceptors[cl]) + 1 < MaxStages

\* One client, one call at a time, interceptors registered between calls,
\* every outcome of every handler and of the request primitive.
Next ==
    \/ \E a \in FlowCreateArgs : Create("api", a)
    \/ \E eh \in FlowErrorHandlers :
          NoCallInFlight /\ ChainRoom("api") /\ AddRequestInterceptor("api", "f", eh)
    \/ \E eh \in FlowErrorHandlers :
          NoCallInFlight /\ ChainRoom("api") /\ AddResponseInterceptor("api", "f", eh)
    \/ \E t \in FlowTempConfigs, e \in FlowEndPoints : Verb(1, "api", "GET", e, t)
    \/ OnFulfilled(1, FlowXforms)
    \/ OnRejected(1)
    \/ DeferredSettle(1, FlowXforms)
    \/ \E prim \in {"settles", "hangs"} : DispatchStart(1, prim)
    \/ TimerFire(1)
    \/ FetchResolve(1)
    \/ FetchReject(1)
    \/ FetchAbort(1)

Spec == Init /\ [][Next]_vars

\* The inputs of the configuration specification.
HeadersAB == ("A" :> "1") @@ ("B" :> "2")
HeadersBC == ("B" :> "3") @@ ("C" :> "4")
HeadersCT == Obj1("Content-Type", "text/plain")
OptsXY == ("x" :> 1) @@ ("y" :> 2)
OptsY  == Obj1("y", 3)

CfgCreateArgs ==
    {EmptyObj,
     Obj1("timeout", 0),
     Obj1("headers", HeadersAB),
     Obj1("headers", HeadersCT) @@ Obj1("method", "HEAD"),
     ("baseURL" :> <<"h">>) @@ ("headers" :> HeadersAB) @@ ("opts" :> OptsXY)
        @@ ("timeout" :> 50)}

CfgTempConfigs ==
    {EmptyObj,
     Obj1("timeout", 0),
     Obj1("timeout", 20) @@ Obj1("headers", HeadersCT),
     Obj1("headers", HeadersBC),
     ("opts" :> OptsY) @@ ("baseURL" :> <<"g", "/">>),
     ("signal" :> 0) @@ ("method" :> "TRACE")}

CfgEndPoints == {<<"/", "a">>}
CfgXforms == {"setHeader"}

\* One client with every configuration above, every verb, request interceptors
\* that may change the envelope, one call at a time.
ConfigNext ==
    \/ \E a \in CfgCreateArgs : Create("api", a)
    \/ NoCallInFlight /\ AddRequestInterceptor("api", "f", NoHandler)
    \/ \E v \in Verbs, t \in CfgTempConfigs, e \in CfgEndPoints :
          Verb(1, "api", v, e, t)
    \/ OnFulfilled(1, CfgXforms)
    \/ OnRejected(1)
    \/ DeferredSettle(1, CfgXforms)
    \/ DispatchStart(1, "settles")
    \/ TimerFire(1)
    \/ FetchResolve(1)
    \/ FetchReject(1)
    \/ FetchAbort(1)

ConfigSpec == Init /\ [][ConfigNext]_vars

\* The inputs of the dispatch specification.
LiveCreateArgs == {Undefined, EmptyObj, Obj1("timeout", 0), Obj1("timeout", 50)}
LiveTempConfigs == {EmptyObj, Obj1("timeout", 0), Obj1("timeout", 20)}
LiveEndPoints == {<<"/", "a">>, <<"/", "b">>}

\* Calls without interceptors: the dispatch, its timer and the primitive.
LiveNext ==
    \/ \E cl \in Clients, a \in LiveCreateArgs : Create(cl, a)
    \/ \E t \in LiveTempConfigs, e \in LiveEndPoints : Verb(1, "api", "GET", e, t)
    \/ \E prim \in {"settles", "hangs"} : DispatchStart(1, prim)
    \/ TimerFire(1)
    \/ FetchResolve(1)
    \/ FetchReject(1)
    \/ FetchAbort(1)

\* The timer service runs the callback of a timer that stays pending, and a
\* primitive that honours its signal rejects once the signal is aborted.
LiveSpec ==
    /\ Init /\ [][LiveNext]_vars
    /\ WF_vars(TimerFire(1))
    /\ WF_vars(FetchAbort(1))

\* The inputs of the concurrent specification.
ConcTempConfigs == {EmptyObj, Obj1("timeout", 20)}
ConcEndPoints == {<<"/", "a">>}

\* One client without interceptors, as many calls in flight as there are
\* slots, their steps interleaved in every order.
ConcNext ==
    \/ Create("api", EmptyObj)
    \/ \E c \in Slots, t \in ConcTempConfigs, e \in ConcEndPoints :
          Verb(c, "api", "GET", e, t)
    \/ \E c \in Slots, prim \in {"settles", "hangs"} : DispatchStart(c, prim)
    \/ \E c \in Slots : TimerFire(c)
    \/ \E c \in Slots : FetchResolve(c)
    \/ \E c \in Slots : FetchReject(c)
    \/ \E c \in Slots : FetchAbort(c)

ConcSpec == Init /\ [][ConcNext]_vars

\* The inputs of the sharing specification.
FrameCreateArgs == {Obj1("headers", HeadersAB)}
FrameTempConfigs == {EmptyObj}
FrameXforms == {"mutHeader", "mutField"}

\* One client, two calls in flight at once, request interceptors that write
\* into the envelope they are given (a deferred value a handler returns stays
\* pending here).
FrameNext ==
    \/ \E a \in FrameCreateArgs : Create("api", a)
    \/ NoCallInFlight /\ AddRequestInterceptor("api", "f", NoHandler)
    \/ \E c \in {1, 2}, t \in FrameTempConfigs :
          Verb(c, "api", "GET", <<"/", "a">>, t)
    \/ \E c \in {1, 2} : OnFulfilled(c, FrameXforms)
    \/ \E c \in {1, 2} : OnRejected(c)
    \/ \E c \in {1, 2} : DispatchStart(c, "settles")
    \/ \E c \in {1, 2} : TimerFire(c)
    \/ \E c \in {1, 2} : FetchResolve(c)
    \/ \E c \in {1, 2} : FetchReject(c)
    \/ \E c \in {1, 2} : FetchAbort(c)

FrameSpec == Init /\ [][FrameNext]_vars

\* The inputs of the merge specification: the instance configurations create
\* gives, the argument records, and whether the argument's headers field
\* refers to the headers object of the instance configuration.
MergeThisConfigs == {mergeConfig(DefaultConfig, a).v : a \in CfgCreateArgs}
MergeArgConfigs == CfgTempConfigs
MergeHeaps ==
    {Alloc(Alloc(EmptyObj, InstanceObjects("api"), t),
           [ArgObjects EXCEPT !.headers =
                IF shared THEN InstanceObjects("api").headers ELSE @],
           IF shared /\ Has(a, "headers")
               THEN [a EXCEPT !["headers"] = t["headers"]] ELSE a) :
        t \in MergeThisConfigs, a \in MergeArgConfigs, shared \in BOOLEAN}

\* The two merges applied, in any order and again, to one instance
\* configuration, one argument record and the results.
MergeNext ==
    \/ MergeWithInstance
    \/ \E ref1 \in ConfigRefs, ref2 \in ConfigRefs : MergeTwo(ref1, ref2)

MergeInit == InitProgram /\ heap \in MergeHeaps /\ merges = <<>>

MergeSpec == MergeInit /\ [][MergeNext]_vars

\* The inputs of the two-client specification: each client has its own
\* configurations, its own handlers, and the slot its calls use.
MultiCreateArgs(cl) ==
    IF cl = "api"
    THEN {("baseURL" :> <<"h">>) @@ ("headers" :> HeadersAB) @@ ("timeout" :> 50)}
    ELSE {Obj1("headers", HeadersBC)}
MultiHandler(cl) == IF cl = "api" THEN "f" ELSE "h"
MultiErrorHandler(cl) == NoHandler
MultiSlot(cl) == IF cl = "api" THEN 1 ELSE 2
MultiXforms == {"mutHeader"}

\* Two clients from two calls of create, at most one interceptor registered on
\* each side of each, between calls; one call of each client in flight at a
\* time, the steps of the two calls interleaved in every order.
MultiNext ==
    \/ \E cl \in Clients : \E a \in MultiCreateArgs(cl) : Create(cl, a)
    \/ \E cl \in Clients :
          /\ NoCallInFlight /\ requestInterceptors[cl] = <<>>
          /\ AddRequestInterceptor(cl, MultiHandler(cl), MultiErrorHandler(cl))
    \/ \E cl \in Clients :
          /\ NoCallInFlight /\ responseInterceptors[cl] = <<>>
          /\ AddResponseInterceptor(cl, MultiHandler(cl), MultiErrorHandler(cl))
    \/ \E cl \in Clients : Verb(MultiSlot(cl), cl, "GET", <<"/", "a">>, EmptyObj)
    \/ \E c \in {1, 2} : OnFulfilled(c, MultiXforms)
    \/ \E c \in {1, 2} : OnRejected(c)
    \/ \E c \in {1, 2} : DispatchStart(c, "settles")
    \/ \E c \in {1, 2} : TimerFire(c)
    \/ \E c \in {1, 2} : FetchResolve(c)
    \/ \E c \in {1, 2} : FetchReject(c)
    \/ \E c \in {1, 2} : FetchAbort(c)

MultiSpec == Init /\ [][MultiNext]_vars

\* The inputs of the interception specification.
InterceptCreateArgs ==
    {EmptyObj,
     ("baseURL" :> <<"h">>) @@ ("headers" :> HeadersAB) @@ ("opts" :> OptsXY)
        @@ ("timeout" :> 50)}
InterceptTempConfigs ==
    {EmptyObj, Obj1("headers", HeadersBC), Obj1("baseURL", <<"g", "/">>)}
InterceptXforms ==
    {"setSignal", "setFields", "mutHeader", "setEndPoint", "delHeader",
     "newConfig"}

\* One client, request interceptors that assign fields, headers and a signal
\* of their own in the envelope's config or return another endpoint, one call
\* at a time.
InterceptNext ==
    \/ \E a \in InterceptCreateArgs : Create("api", a)
    \/ NoCallInFlight /\ AddRequestInterceptor("api", "f", NoHandler)
    \/ \E t \in InterceptTempConfigs : Verb(1, "api", "GET", <<"/", "a">>, t)
    \/ OnFulfilled(1, InterceptXforms)
    \/ OnRejected(1)
    \/ DispatchStart(1, "settles")
    \/ TimerFire(1)
    \/ FetchResolve(1)
    \/ FetchReject(1)
    \/ FetchAbort(1)

InterceptSpec == Init /\ [][InterceptNext]_vars

\* The inputs of the registration specification.
RaceErrorHandlers == {NoHandler}
RaceXforms == {}

\* One client, interceptors registered at any moment, also while calls are in
\* flight; two calls at a time, a second verb invoked while the first call is
\* still in flight; no timeout, so no timer, and a request primitive that
\* resolves.
RaceNext ==
    \/ Create("api", Obj1("timeout", 0))
    \/ \E eh \in RaceErrorHandlers : AddRequestInterceptor("api", "f", eh)
    \/ \E eh \in RaceErrorHandlers : AddResponseInterceptor("api", "f", eh)
    \/ \E c \in {1, 2} : Verb(c, "api", "GET", <<"/", "a">>, EmptyObj)
    \/ \E c \in {1, 2} : OnFulfilled(c, RaceXforms)
    \/ \E c \in {1, 2} : OnRejected(c)
    \/ \E c \in {1, 2} : DispatchStart(c, "settles")
    \/ \E c \in {1, 2} : FetchResolve(c)

RaceSpec == Init /\ [][RaceNext]_vars

\* The inputs of the signal specification.
SignalCreateArgs == {EmptyObj, Obj1("signal", CallerSignal)}
SignalTempConfigs == {EmptyObj, Obj1("signal", CallerSignal)}
SignalXforms == {"setSignal"}

\* The caller aborts the controller whose signal it supplied.
CallerAbort ==
    /\ CallerSignal \notin aborted
    /\ aborted' = aborted \cup {CallerSignal}
    /\ UNCHANGED <<created, config, requestInterceptors, responseInterceptors,
                   createError, createArg, calls, ncalls, heap, merges,
                   registered>>

\* One client, a signal of the caller's in the instance config, in the
\* per-call config or assigned by a request interceptor, a caller that aborts
\* its controller at any moment, two calls in flight at once.
SignalNext ==
    \/ \E a \in SignalCreateArgs : Create("api", a)
    \/ NoCallInFlight /\ AddRequestInterceptor("api", "f", NoHandler)
    \/ \E c \in {1, 2}, t \in SignalTempConfigs :
          Verb(c, "api", "GET", <<"/", "a">>, t)
    \/ \E c \in {1, 2} : OnFulfilled(c, SignalXforms)
    \/ \E c \in {1, 2} : OnRejected(c)
    \/ \E c \in {1, 2}, prim \in {"settles", "hangs"} : DispatchStart(c, prim)
    \/ \E c \in {1, 2} : TimerFire(c)
    \/ \E c \in {1, 2} : FetchResolve(c)
    \/ \E c \in {1, 2} : FetchAbort(c)
    \/ CallerAbort

SignalSpec == Init /\ [][SignalNext]_vars

\* ------------------------------------------------------------------ claims

Range(q) == {q[i] : i \in 1..Len(q)}

\* The place of the dispatch in a call's chain.
DispatchPos(k) == CHOOSE i \in 1..Len(k.chain) : k.chain[i].kind = "dispatch"

\* The chain of call k is the client's request interceptors in registration
\* order, then the dispatch, then its response interceptors in registration
\* order (both lists only grow, so the lists of the time of the call are
\* prefixes of the present ones).
ChainInRegistrationOrder(k) ==
    LET m == Len(k.chain) - k.nreq - 1
    IN  /\ m >= 0
        /\ k.nreq <= Len(requestInterceptors[k.client])
        /\ m <= Len(responseInterceptors[k.client])
        /\ \A i \in 1..k.nreq :
              k.chain[i] = Stage("request",
                                 requestInterceptors[k.client][i].successHandler,
                                 requestInterceptors[k.client][i].errorHandler)
        /\ k.chain[k.nreq + 1] = Stage("dispatch", "dispatchRequest", NoHandler)
        /\ \A j \in 1..m :
              k.chain[k.nreq + 1 + j] =
                  Stage("response",
                        responseInterceptors[k.client][j].successHandler,
                        responseInterceptors[k.client][j].errorHandler)

\* C1: a call in which no handler failed has run the success handlers of its
\* stages exactly once each, in the order R1..Rn, dispatch, S1..Sm of the
\* registrations.
C1_SuccessOrder ==
    \A c \in Slots :
        LET k == calls[c]
        IN  (Finished(k) /\ ~k.failed) =>
                /\ k.slog = [i \in 1..Len(k.chain) |-> i]
                /\ ChainInRegistrationOrder(k)

C1_Witness ==
    \E c \in Slots :
        LET k == calls[c]
        IN  /\ Finished(k) /\ ~k.failed
            /\ k.nreq = 2 /\ Len(k.chain) = 5
            /\ k.chain[1] # k.chain[2]
            /\ k.slog = <<1, 2, 3, 4, 5>>

\* Some handler of a response interceptor ran in the latest step of call k.
ResponseHandlerRan(k) ==
    \E n \in 1..Len(k.ev) :
        /\ k.ev[n].handler \in {"success", "error"}
        /\ k.chain[k.ev[n].stage].kind = "response"

DispatchStarted(k) == \E i \in Range(k.slog) : k.chain[i].kind = "dispatch"

\* Every request interceptor's stage of call k has settled.
RequestStagesSettled(k) ==
    \A j \in 1..Len(k.chain) : k.chain[j].kind = "request" => j < k.idx

\* C2, as stated: the dispatch is not started before every request
\* interceptor has completed, and no handler of a response interceptor is
\* invoked before the dispatch of the call has run to completion.
C2_Original ==
    \A c \in Slots :
        LET k == calls[c]
        IN  k.st # "idle" =>
                /\ DispatchStarted(k) => RequestStagesSettled(k)
                /\ ResponseHandlerRan(k) => k.dres # <<>>

\* C2, amended: the dispatch is not started before every request interceptor's
\* stage has settled, and no handler of a response interceptor is invoked
\* before the dispatch stage has settled: the dispatch has then either run to
\* completion or was skipped because a request-side failure reached it.
C2_StagesInOrder ==
    \A c \in Slots :
        LET k == calls[c]
        IN  k.st # "idle" =>
                /\ DispatchStarted(k) => RequestStagesSettled(k)
                /\ ResponseHandlerRan(k) =>
                      /\ k.idx > DispatchPos(k)
                      /\ RequestStagesSettled(k)
                      /\ k.dres # <<>> \/ (~DispatchStarted(k) /\ k.sent = <<>>)

C2_Witness ==
    \E c \in Slots :
        LET k == calls[c]
        IN  /\ ResponseHandlerRan(k)
            /\ k.nreq >= 1
            /\ k.dres # <<>> /\ k.dres[1].st = "rejected"
            /\ k.ev[1].handler = "error"

\* C3: a call in flight with timeout T > 0 whose request primitive never
\* settles on its own leads to the dispatch rejecting with the timeout error
\* of the call's endpoint and T.
C3_TimeoutFires ==
    \A e \in LiveEndPoints : \A T \in {20, 50, DefaultTimeout} :
        (/\ calls[1].st = "pending" /\ calls[1].wait = "fetch"
         /\ calls[1].prim = "hangs"
         /\ calls[1].endPoint = e /\ calls[1].timeout = T)
        ~> (/\ calls[1].dres # <<>>
            /\ calls[1].dres[1].st = "rejected"
            /\ calls[1].dres[1].val = TimeoutError(e, T))

C3_Witness ==
    /\ calls[1].prim = "hangs"
    /\ calls[1].endPoint = <<"/", "b">>
    /\ calls[1].tempConfig = Obj1("timeout", 20)
    /\ calls[1].dres # <<>>
    /\ calls[1].dres[1].val = TimeoutError(<<"/", "b">>, 20)
    /\ calls[1].timer = "fired"

\* C4: when the request primitive resolves while the call's timer has not
\* fired, the dispatch resolves with the primitive's response and the call's
\* signal is never aborted.
C4_NoSpuriousCancel ==
    \A c \in Slots :
        LET k == calls[c]
        IN  (/\ k.dres # <<>>
             /\ k.dres[1].st = "fulfilled"
             /\ k.dres[1].timer # "fired") =>
                /\ k.dres[1].val = Response(k.sent[1])
                /\ k.dres[1].val = k.dres[1].raw
                /\ k.signal \notin aborted
                /\ k.timer # "fired"

C4_Witness ==
    \E c \in Slots :
        LET k == calls[c]
        IN  /\ Finished(k)
            /\ k.dres # <<>> /\ k.dres[1].st = "fulfilled"
            /\ k.dres[1].timer = "pending"
            /\ k.timer = "cleared"
            /\ k.signal \notin aborted

\* C5: once the dispatch of a call has settled, the call's timer is not
\* pending.
C5_NoTimerAfterDispatch ==
    \A c \in Slots :
        LET k == calls[c]
        IN  k.dres # <<>> => k.timer # "pending"

\* The request of call k is in flight and no handler has changed the envelope
\* the verb seeded.
SentUnchanged(k) ==
    /\ k.st = "pending" /\ k.wait = "fetch"
    /\ k.src = <<>>
    /\ Len(k.sent) = 1

\* The timeout of a call as C6 states it: the per-call config's when the
\* caller supplied one, otherwise the instance's, otherwise none (0).
StatedTimeout(tempConfig, instanceConfig) ==
    IF Has(tempConfig, "timeout") THEN tempConfig["timeout"]
    ELSE IF Has(instanceConfig, "timeout") THEN instanceConfig["timeout"]
    ELSE 0

\* C6: the timeout a call is dispatched with is the per-call config's when the
\* caller supplied one, otherwise the instance's, otherwise none, and a call
\* whose timeout is 0 or absent starts no timer.
C6_EffectiveTimeout ==
    \A c \in Slots :
        LET k == calls[c]
            t == StatedTimeout(k.tempConfig, config[k.client])
        IN  SentUnchanged(k) =>
                /\ k.timeout = t
                /\ t = 0 => k.timer = "none"

\* The headers of the three tiers, a later tier's value winning per key.
TierHeaders(cfg) ==
    IF Has(cfg, "headers") THEN cfg["headers"] ELSE EmptyObj

StatedHeaders(createdWith, tempConfig) ==
    LET d == TierHeaders(DefaultConfig)
        i == TierHeaders(createdWith)
        p == TierHeaders(tempConfig)
    IN  [h \in DOMAIN d \cup DOMAIN i \cup DOMAIN p |->
            IF h \in DOMAIN p THEN p[h]
            ELSE IF h \in DOMAIN i THEN i[h] ELSE d[h]]

\* C8: the headers passed to the request primitive are the key union of the
\* default, instance and per-call headers, the later tier's value winning for
\* a key that several tiers have.
C8_HeaderMerge ==
    \A c \in Slots :
        LET k == calls[c]
        IN  SentUnchanged(k) =>
                k.sent[1].options["headers"]
                    = StatedHeaders(createArg[k.client], k.tempConfig)

C8_Witness ==
    \E c \in Slots :
        LET k == calls[c]
        IN  /\ SentUnchanged(k)
            /\ TierHeaders(createArg[k.client]) = HeadersAB
            /\ TierHeaders(k.tempConfig) = HeadersBC
            /\ k.sent[1].options["headers"] =
                  ("A" :> "1") @@ ("B" :> "3") @@ ("C" :> "4")
                      @@ ("Content-Type" :> "application/json")

\* The top-level fields of the configurations of the model, headers apart.
PlainFields == {"baseURL", "timeout", "method", "signal", "opts"}

\* Field f of the options is the per-call value when the per-call config has
\* f, otherwise the instance's, otherwise the default's, otherwise absent.
FieldFromTiers(options, f, createdWith, tempConfig) ==
    IF Has(tempConfig, f) THEN Has(options, f) /\ options[f] = tempConfig[f]
    ELSE IF Has(createdWith, f) THEN Has(options, f) /\ options[f] = createdWith[f]
    ELSE IF Has(DefaultConfig, f) THEN Has(options, f) /\ options[f] = DefaultConfig[f]
    ELSE ~Has(options, f)

\* The per-call config #request receives: the caller's, with the verb's method.
PerCallConfig(k) == Spread(k.tempConfig, Obj1("method", k.verb))

C7_TimeoutOnlyByTimer ==
    \A c \in Slots :
        LET k == calls[c]
        IN  (k.dres # <<>> /\ k.dres[1].st = "rejected") =>
                LET d == k.dres[1]
                IN  /\ d.val.msg.t = "timeout" =>
                          /\ d.timer = "fired"
                          /\ k.signal \in aborted
                          /\ d.val = TimeoutError(k.endPoint, k.timeout)
                    /\ d.raw.name # "AbortError" => d.val = d.raw

C7_Witness ==
    \E c \in Slots :
        LET k == calls[c]
        IN  /\ k.dres # <<>> /\ k.dres[1].st = "rejected"
            /\ k.dres[1].raw = NetworkError
            /\ k.dres[1].val = NetworkError
            /\ k.dres[1].timer = "pending"
            /\ k.timer = "cleared"

\* The handler invocation that produced the value call k settled with is an
\* error handler of a response interceptor returning a value for the rejection
\* of the stage before it: no later stage failed or returned another value.
RecoveredByResponse(k) ==
    /\ Finished(k)
    /\ k.src # <<>>
    /\ k.src[1].handler = "error"
    /\ k.src[1].t = "return"
    /\ k.chain[k.src[1].stage].kind = "response"
    /\ k.src[1].arg # ThrownBy(k.src[1].stage)

\* C10: when the stage before a response interceptor rejected, the
\* interceptor's error handler returns a placeholder, and no later stage fails
\* or returns another value, the call resolves with that placeholder.
C10_Recovery ==
    \A c \in Slots :
        LET k == calls[c]
        IN  RecoveredByResponse(k) =>
                /\ k.st = "fulfilled"
                /\ k.val = k.src[1].v
                /\ k.val = NewVal(k.src[1].stage)

C10_Witness ==
    \E c \in Slots :
        LET k == calls[c]
        IN  /\ RecoveredByResponse(k)
            /\ k.src[1].stage < Len(k.chain)
            /\ k.src[1].arg = NetworkError
            /\ k.st = "fulfilled"
            /\ Len(k.slog) = Len(k.chain) - 1

\* No stage of call k from stage i on has an error handler.
NoHandlerFrom(k, i) ==
    \A j \in i..Len(k.chain) : k.chain[j].errorHandler = NoHandler

\* C11: a stage with no error handler whose predecessor rejected invokes none
\* of its handlers and rejects with the identical error, and while no stage
\* from the rejected one on has an error handler the call stays rejected with
\* that error, to its end.
C11_PassThrough ==
    [][\A c \in Slots :
          LET k  == calls[c]
              k2 == calls'[c]
          IN  (k.st = "rejected" /\ k2.no = k.no /\ k2 # k) =>
                /\ (Running(k) /\ CurStage(k).errorHandler = NoHandler) =>
                      /\ k2.st = "rejected" /\ k2.val = k.val
                      /\ k2.ev = <<>>
                      /\ k2.slog = k.slog
                      /\ k2.idx \in {k.idx, k.idx + 1}
                /\ NoHandlerFrom(k, k.idx) =>
                      /\ k2.st = "rejected" /\ k2.val = k.val
                      /\ k2.slog = k.slog]_vars

C11_Witness ==
    \E c \in Slots :
        LET k == calls[c]
        IN  /\ Finished(k) /\ k.st = "rejected"
            /\ Len(k.chain) = k.nreq + 3
            /\ NoHandlerFrom(k, k.nreq + 1)
            /\ k.dres # <<>> /\ k.dres[1].raw = NetworkError
            /\ k.val = NetworkError
            /\ k.slog = [i \in 1..(k.nreq + 1) |-> i]
            /\ k.ev = <<>>

\* C12: a call in which some stage failed resolves only if, since the latest
\* failure, an error handler of that stage or of a later one returned a value
\* that is no rejection; otherwise the call rejects.
C12_NoImplicitSwallow ==
    \A c \in Slots :
        LET k == calls[c]
        IN  /\ (Finished(k) /\ k.failed) => (k.st = "fulfilled" <=> k.rec)
            /\ (Finished(k) /\ k.st = "rejected") => k.failed
            /\ (k.st = "fulfilled" /\ k.failed) => k.rec
            /\ k.rec => k.failed

C12_Witness ==
    \E c \in Slots :
        /\ Finished(calls[c]) /\ calls[c].failed /\ calls[c].st = "fulfilled"
        /\ calls[c].rec
        /\ calls[c].src[1].handler = "success"
        /\ calls[c].dres # <<>> /\ calls[c].dres[1].st = "rejected"

\* The call k has just been made: its envelope enters the chain.
Seeded(k) == k.idx = 1 /\ k.st = "fulfilled" /\ k.slog = <<>>

\* C13: for each verb, the envelope entering the chain carries the verb's
\* method, and with no request interceptor changing it the request is issued
\* with that method, whatever method the per-call or the instance config name.
C13_VerbMethod ==
    \A c \in Slots :
        LET k == calls[c]
        IN  /\ k.st # "idle" => k.verb \in Verbs
            /\ Seeded(k) =>
                  /\ k.val.kind = "env"
                  /\ k.val.config["method"] = k.verb
            /\ SentUnchanged(k) => k.sent[1].options["method"] = k.verb

C13_Witness ==
    \E c \in Slots :
        LET k == calls[c]
        IN  /\ SentUnchanged(k)
            /\ k.verb = "PATCH"
            /\ Has(k.tempConfig, "method") /\ k.tempConfig["method"] = "TRACE"
            /\ Has(config[k.client], "method") /\ config[k.client]["method"] = "HEAD"
            /\ k.sent[1].options["method"] = "PATCH"

\* The request of call k is with the request primitive.
InFlight(k) == k.st = "pending" /\ k.wait = "fetch"

\* The calls other than that of slot c are left as they are by the step.
OthersUnchanged(c) == \A d \in Slots \ {c} : calls'[d] = calls[d]

\* C14: calls in flight on one client have cancellation handles of their own,
\* the request primitive of each is given its own call's signal, a request is
\* cancelled only when its own call's timer fired; the firing of a call's timer
\* aborts that call's handle and nothing else, and the settling of a call
\* clears its own timer and leaves every other call, timer and handle alone.
C14_CallsIsolated ==
    /\ [](\A c \in Slots :
            LET k == calls[c]
            IN  /\ InFlight(k) =>
                      /\ k.sent[Len(k.sent)].options["signal"] = k.signal
                      /\ \A d \in Slots \ {c} :
                            InFlight(calls[d]) => calls[d].signal # k.signal
                      /\ k.timer # "fired" => k.signal \notin aborted
                /\ (k.dres # <<>> /\ k.dres[1].raw = AbortError) =>
                      k.dres[1].timer = "fired")
    /\ [][\A c \in Slots :
            LET k  == calls[c]
                k2 == calls'[c]
            IN  /\ (k.timer = "pending" /\ k2.timer = "fired") =>
                      /\ aborted' = aborted \cup {k.signal}
                      /\ OthersUnchanged(c)
                /\ (InFlight(k) /\ k2.dres # <<>>) =>
                      /\ k2.timer = (IF k.timer = "pending" THEN "cleared" ELSE k.timer)
                      /\ aborted' = aborted
                      /\ OthersUnchanged(c)]_vars

\* Two calls were in flight together: the later one's timer fired and it was
\* rejected with its timeout error while the earlier one is still in flight
\* with its timer pending.
C14_Witness ==
    \E c \in Slots, d \in Slots :
        /\ calls[c].no > calls[d].no /\ calls[d].no > 0
        /\ calls[c].dres # <<>>
        /\ calls[c].dres[1].val = TimeoutError(calls[c].endPoint, calls[c].timeout)
        /\ calls[c].signal \in aborted
        /\ InFlight(calls[d])
        /\ calls[d].timer = "pending"
        /\ calls[d].signal \notin aborted

\* The configuration create(newConfig) gives a client.
CreatedConfig(newConfig) == mergeConfig(DefaultConfig, newConfig).v

\* The configuration the verb seeds the envelope of call k with.
SeededConfig(k) ==
    mergeConfig(config[k.client], VerbConfig(k.tempConfig, k.verb)).v

\* C15: a client's configuration is what create set and no step of a verb
\* call, a dispatch, a handler or a registration changes it; what a request
\* interceptor writes into the envelope it is given, and the signal the
\* dispatch attaches, shows in that call's envelope only: a step of one call
\* leaves every other call as it is, and the envelope of a call none of whose
\* handlers changed it is the seeded one, with the call's own signal once its
\* dispatch ran.
C15_ConfigFrame ==
    /\ [](/\ \A cl \in Clients :
                created[cl] => config[cl] = CreatedConfig(createArg[cl])
          /\ \A c \in Slots :
                LET k == calls[c]
                IN  (k.st # "idle" /\ k.src = <<>> /\ k.val.kind = "env") =>
                        k.val.config =
                            (IF DispatchStarted(k)
                             THEN Spread(SeededConfig(k), Obj1("signal", k.signal))
                             ELSE SeededConfig(k)))
    /\ [][/\ \A cl \in Clients :
                config'[cl] # config[cl] => (~created[cl] /\ created'[cl])
          /\ \A c \in Slots : calls'[c] # calls[c] => OthersUnchanged(c)]_vars

\* Call c went out with the header and the field its interceptors wrote into
\* its envelope and with its signal, while call d, made before it, is still
\* at its first stage.
C15_Witness ==
    \E c \in Slots, d \in Slots :
        /\ calls[d].no > 0 /\ calls[c].no > calls[d].no
        /\ Seeded(calls[d])
        /\ calls[c].sent # <<>>
        /\ Has(calls[c].sent[1].options, "tag")
        /\ "Authorization" \in DOMAIN calls[c].sent[1].options["headers"]
        /\ calls[c].sent[1].options["signal"] = calls[c].signal
        /\ createArg["api"] = Obj1("headers", HeadersAB)
        /\ "Authorization" \notin DOMAIN calls[d].val.config["headers"]

\* C16: neither merge changes an object that existed before it: the instance
\* configuration, the argument records and their headers maps are after the
\* merge what they were before it.
C16_MergePure ==
    [][\A id \in DOMAIN heap : id \in DOMAIN heap' /\ heap'[id] = heap[id]]_vars

\* Both merges were applied to an instance configuration and an argument
\* record that both have headers, and the inputs show what they showed.
C16_Witness ==
    /\ Len(merges) = 2
    /\ merges[1].op = "mergeConfig" /\ merges[2].op = "mergeConfigs"
    /\ merges[2].a = ThisRef /\ merges[2].b = ArgRef
    /\ Deref(heap, ThisRef)["headers"] =
          ("A" :> "1") @@ ("B" :> "2") @@ ("Content-Type" :> "application/json")
    /\ Deref(heap, ArgRef) = Obj1("headers", HeadersBC)
    /\ Deref(heap, merges[1].ref)["headers"] =
          ("A" :> "1") @@ ("B" :> "3") @@ ("C" :> "4")
              @@ ("Content-Type" :> "application/json")

\* C17: two merges of the same kind given the same two records have equal
\* results, and the result of a merge is that of its two inputs as they are:
\* nothing is carried from one merge to the next.
C17_MergeDeterministic ==
    \A i \in 1..Len(merges) :
        /\ \A j \in 1..Len(merges) :
              (/\ merges[i].op = merges[j].op
               /\ merges[i].a = merges[j].a /\ merges[i].b = merges[j].b) =>
                    merges[i].out = merges[j].out
        /\ merges[i].out =
              (IF merges[i].op = "mergeConfig"
               THEN mergeConfig(Deref(heap, merges[i].a), Deref(heap, merges[i].b)).v
               ELSE mergeConfigs(Deref(heap, merges[i].a), Deref(heap, merges[i].b)))
        /\ Deref(heap, merges[i].ref) = merges[i].out

C17_Witness ==
    /\ Len(merges) = 2
    /\ merges[1].op = "mergeConfig" /\ merges[2].op = "mergeConfig"
    /\ merges[1].ref # merges[2].ref
    /\ merges[1].out = merges[2].out
    /\ Has(Deref(heap, ArgRef), "opts")
    /\ merges[2].out["opts"] = OptsY

\* q is p, or p with one more entry at its end.
SameOrOneMore(p, q) ==
    \/ q = p
    \/ Len(q) = Len(p) + 1 /\ SubSeq(q, 1, Len(p)) = p

\* C18: each list of a client holds exactly the pairs registered on its side,
\* in the order of the registrations, duplicates included; a step that changes
\* one list adds one entry at its end and leaves the other list and the
\* configuration as they are, and no step removes or reorders an entry.
C18_AppendOnly ==
    /\ [](\A cl \in Clients :
            /\ requestInterceptors[cl] = registered[cl].request
            /\ responseInterceptors[cl] = registered[cl].response)
    /\ [][\A cl \in Clients :
            /\ SameOrOneMore(requestInterceptors[cl], requestInterceptors'[cl])
            /\ SameOrOneMore(responseInterceptors[cl], responseInterceptors'[cl])
            /\ requestInterceptors'[cl] # requestInterceptors[cl] =>
                  /\ responseInterceptors' = responseInterceptors
                  /\ config' = config
            /\ responseInterceptors'[cl] # responseInterceptors[cl] =>
                  /\ requestInterceptors' = requestInterceptors
                  /\ config' = config]_vars

\* The same pair was registered twice on the request side, the list of the
\* response side differs, and a call has been made since.
C18_Witness ==
    /\ requestInterceptors["api"] = <<Interceptor("f", "g"), Interceptor("f", "g")>>
    /\ responseInterceptors["api"] = <<Interceptor("f", NoHandler)>>
    /\ registered["api"].request = requestInterceptors["api"]
    /\ ncalls > 0

\* The configuration of a client as C19 states it for create(newConfig): the
\* defaults, each field newConfig has taking newConfig's value, the headers
\* merged key by key.
StatedCreateConfig(newConfig) ==
    [f \in DOMAIN DefaultConfig \cup DOMAIN newConfig |->
        IF f = "headers" THEN StatedHeaders(newConfig, EmptyObj)
        ELSE IF Has(newConfig, f) THEN newConfig[f]
        ELSE DefaultConfig[f]]

\* C19: the configuration of a client create(newConfig) returned is the
\* built-in defaults overridden field by field by newConfig, with the headers
\* merged key by key, and the client starts with empty interceptor lists.
C19_CreateConfig ==
    /\ [](\A cl \in Clients :
            created[cl] => config[cl] = StatedCreateConfig(createArg[cl]))
    /\ [][\A cl \in Clients :
            (created'[cl] /\ ~created[cl]) =>
                /\ requestInterceptors'[cl] = <<>>
                /\ responseInterceptors'[cl] = <<>>
                /\ config'[cl] = StatedCreateConfig(createArg'[cl])]_vars

C19_Witness ==
    /\ created["api"]
    /\ createArg["api"] = ("baseURL" :> <<"h">>) @@ ("headers" :> HeadersAB)
                             @@ ("opts" :> OptsXY) @@ ("timeout" :> 50)
    /\ config["api"] =
          ("baseURL" :> <<"h">>) @@ ("opts" :> OptsXY) @@ ("timeout" :> 50)
            @@ ("headers" :> (("A" :> "1") @@ ("B" :> "2")
                                @@ ("Content-Type" :> "application/json")))
    /\ requestInterceptors["api"] = <<>>
    /\ responseInterceptors["api"] = <<>>
    /\ ncalls = 0

\* Stage i of call k is the dispatch or an interceptor that was registered on
\* the call's own client, and on no other client.
OwnStage(k, i) ==
    LET s    == k.chain[i]
        pair == Interceptor(s.successHandler, s.errorHandler)
    IN  s.kind # "dispatch" =>
            /\ pair \in Range(registered[k.client][s.kind])
            /\ \A o \in Clients \ {k.client} :
                  pair \notin Range(registered[o][s.kind])

\* C20: clients from separate calls of create are independent. Every stage of
\* a call, hence every handler the call runs, is the dispatch or an
\* interceptor registered on the call's own client; a client's configuration
\* is what its own create set, whatever was done with the other client; the
\* options and the timeout a call is dispatched with are those of its own
\* client's configuration merged with its own envelope; and a step that
\* changes the lists or the configuration of one client leaves those of every
\* other client as they are.
C20_ClientsIndependent ==
    /\ [](/\ \A cl \in Clients :
                created[cl] => config[cl] = CreatedConfig(createArg[cl])
          /\ \A c \in Slots :
                LET k    == calls[c]
                    own  == CreatedConfig(createArg[k.client])
                IN  k.st # "idle" =>
                      /\ \A i \in 1..Len(k.chain) : OwnStage(k, i)
                      /\ \A j \in 1..Len(k.ev) : OwnStage(k, k.ev[j].stage)
                      /\ (k.st = "pending" /\ k.wait = "fetch") =>
                            /\ k.sent[Len(k.sent)].options
                                  = mergeConfigs(own, k.val.config)
                            /\ k.timeout = EffectiveTimeout(own, k.val.config))
    /\ [][\A cl \in Clients :
            (\/ requestInterceptors'[cl] # requestInterceptors[cl]
             \/ responseInterceptors'[cl] # responseInterceptors[cl]
             \/ config'[cl] # config[cl]) =>
                \A o \in Clients \ {cl} :
                    /\ requestInterceptors'[o] = requestInterceptors[o]
                    /\ responseInterceptors'[o] = responseInterceptors[o]
                    /\ config'[o] = config[o]]_vars

\* Both clients have a request interceptor of their own and a call in flight
\* whose interceptor ran; each request went out with its own client's headers,
\* base URL and timeout.
C20_Witness ==
    LET a == calls[1]
        b == calls[2]
    IN  /\ a.client = "api" /\ b.client = "other"
        /\ a.st = "pending" /\ a.wait = "fetch"
        /\ b.st = "pending" /\ b.wait = "fetch"
        /\ a.nreq = 1 /\ b.nreq = 1
        /\ a.chain[1].successHandler = "f" /\ b.chain[1].successHandler = "h"
        /\ a.slog = <<1, 2>> /\ b.slog = <<1, 2>>
        /\ createArg["api"] # EmptyObj
        /\ createArg["other"] = Obj1("headers", HeadersBC)
        /\ a.sent[1].url = <<"h", "/", "a">>
        /\ DOMAIN a.sent[1].options["headers"] = {"A", "B", "Content-Type"}
        /\ DOMAIN b.sent[1].options["headers"]
              = {"B", "C", "Content-Type", "Authorization"}
        /\ a.timeout = 50 /\ b.timeout = DefaultTimeout

\* The latest step of call k was a success handler that threw.
SuccessThrew(k) ==
    /\ Len(k.ev) >= 1
    /\ k.ev[1].handler = "success" /\ k.ev[1].t = "throw"

\* C21: when the success handler of a stage throws, the error handler of that
\* same stage, when it has one, is invoked with the thrown error and what it
\* does is what the stage does (its value fulfils the stage, its throw rejects
\* it, its deferred value is awaited); a stage with no error handler rejects
\* with the thrown error.
C21_ThrowToOwnHandler ==
    \A c \in Slots :
        LET k   == calls[c]
            i   == k.ev[1].stage
            err == k.ev[1].v
        IN  SuccessThrew(k) =>
                IF k.chain[i].errorHandler # NoHandler
                THEN /\ Len(k.ev) = 2
                     /\ k.ev[2].stage = i /\ k.ev[2].handler = "error"
                     /\ k.ev[2].arg = err
                     /\ k.ev[2].t = "return" =>
                            k.st = "fulfilled" /\ k.val = k.ev[2].v /\ k.idx = i + 1
                     /\ k.ev[2].t = "throw" =>
                            k.st = "rejected" /\ k.val = k.ev[2].v /\ k.idx = i + 1
                     /\ k.ev[2].t = "deferred" =>
                            k.st = "pending" /\ k.wait = "error" /\ k.idx = i
                ELSE /\ Len(k.ev) = 1
                     /\ k.st = "rejected" /\ k.val = err /\ k.idx = i + 1

\* A request interceptor's success handler threw, its own error handler was
\* given that error and returned a value, which the dispatch then received.
C21_Witness ==
    \E c \in Slots :
        LET k == calls[c]
        IN  /\ SuccessThrew(k)
            /\ k.chain[k.ev[1].stage].kind = "request"
            /\ k.chain[k.ev[1].stage].errorHandler = "g"
            /\ k.ev[1].v = ThrownBy(k.ev[1].stage)
            /\ k.ev[2].arg = ThrownBy(k.ev[1].stage)
            /\ k.ev[2].t = "return"
            /\ k.st = "fulfilled" /\ k.val = NewVal(k.ev[1].stage)

\* The step is one of call c: a continuation of it ran or a promise it waits
\* for settled.
StepOf(c) ==
    /\ calls'[c].no = calls[c].no
    /\ \/ calls'[c].idx # calls[c].idx
       \/ calls'[c].st # calls[c].st

\* The error handler invocation k2.ev[n] of a step from k to k2 was given the
\* rejection k held, which a stage before that handler's produced.
FromUpstream(k, k2, n) ==
    /\ n = 1
    /\ k.st = "rejected" /\ k2.ev[n].arg = k.val
    /\ k.src # <<>> /\ k.src[1].stage < k2.ev[n].stage

\* C22, as stated: an error handler is invoked only with a failure that a
\* stage strictly before its own produced.
C22_Original ==
    [][\A c \in Slots :
          StepOf(c) =>
              \A n \in 1..Len(calls'[c].ev) :
                  calls'[c].ev[n].handler = "error" =>
                      FromUpstream(calls[c], calls'[c], n)]_vars

\* C22, amended: an error handler is invoked only with a failure that a stage
\* strictly before its own produced, or with the error the success handler of
\* its own stage has just thrown.
C22_ErrorHandlerInputs ==
    [][\A c \in Slots :
          StepOf(c) =>
              \A n \in 1..Len(calls'[c].ev) :
                  LET k  == calls[c]
                      k2 == calls'[c]
                  IN  k2.ev[n].handler = "error" =>
                        \/ FromUpstream(k, k2, n)
                        \/ /\ n = 2 /\ k.st = "fulfilled"
                           /\ k2.ev[1].handler = "success" /\ k2.ev[1].t = "throw"
                           /\ k2.ev[1].stage = k2.ev[2].stage
                           /\ k2.ev[2].arg = k2.ev[1].v]_vars

\* The error handler of a response interceptor was given the error that the
\* first request interceptor threw.
C22_Witness ==
    \E c \in Slots :
        LET k == calls[c]
        IN  /\ Len(k.ev) = 1
            /\ k.ev[1].handler = "error"
            /\ k.chain[k.ev[1].stage].kind = "response"
            /\ k.chain[1].kind = "request"
            /\ k.ev[1].arg = ThrownBy(1)

\* The dispatch of call k has failed.
DispatchFailed(k) == k.dres # <<>> /\ k.dres[1].st = "rejected"

\* The stages of the response interceptors of call k that have an error
\* handler, and the first of them.
ResponseHandlers(k) ==
    {j \in 1..Len(k.chain) :
        k.chain[j].kind = "response" /\ k.chain[j].errorHandler # NoHandler}

FirstResponseHandler(k) ==
    CHOOSE j \in ResponseHandlers(k) : \A i \in ResponseHandlers(k) : j <= i

\* C23: once its dispatch has failed, a call invokes no handler of a request
\* interceptor; the failure stays the call's rejection, unchanged, through the
\* response interceptors that have no error handler, and the continuation of
\* the first response interceptor that has an error handler invokes that
\* handler with it.
C23_DispatchFailureDelivery ==
    /\ [](\A c \in Slots :
            LET k == calls[c]
            IN  DispatchFailed(k) =>
                  /\ \A n \in 1..Len(k.ev) :
                        k.ev[n].handler \in {"success", "error"} =>
                            k.chain[k.ev[n].stage].kind # "request"
                  /\ (/\ k.st # "pending"
                      /\ k.idx > DispatchPos(k)
                      /\ \A j \in ResponseHandlers(k) : k.idx <= j) =>
                        k.st = "rejected" /\ k.val = k.dres[1].val)
    /\ [][\A c \in Slots :
            LET k  == calls[c]
                k2 == calls'[c]
            IN  (/\ StepOf(c) /\ DispatchFailed(k) /\ k.st = "rejected"
                 /\ ResponseHandlers(k) # {}
                 /\ k.idx = FirstResponseHandler(k)) =>
                    /\ Len(k2.ev) = 1
                    /\ k2.ev[1].handler = "error"
                    /\ k2.ev[1].stage = FirstResponseHandler(k)
                    /\ k2.ev[1].arg = k.dres[1].val]_vars

\* After a request interceptor with an error handler ran, the request timed
\* out; the first response interceptor has no error handler and the error
\* handler of the second was given the timeout error.
C23_Witness ==
    \E c \in Slots :
        LET k == calls[c]
        IN  /\ DispatchFailed(k)
            /\ k.dres[1].raw = AbortError
            /\ k.nreq >= 1 /\ k.chain[1].errorHandler # NoHandler
            /\ Len(k.chain) = k.nreq + 3
            /\ k.chain[k.nreq + 2].errorHandler = NoHandler
            /\ k.chain[k.nreq + 3].errorHandler # NoHandler
            /\ Len(k.ev) = 1 /\ k.ev[1].handler = "error"
            /\ k.ev[1].stage = k.nreq + 3
            /\ k.ev[1].arg = TimeoutError(k.endPoint, k.timeout)

\* The latest step of call k was the error continuation of a stage whose
\* error handler returned a value for the rejection it was given.
RecoveredUpstream(k) ==
    /\ Len(k.ev) = 1
    /\ k.ev[1].handler = "error" /\ k.ev[1].t = "return"

\* C24: when the error handler of a stage returns a value for an upstream
\* failure, the stage is fulfilled with that value, the next step of the call
\* invokes the success handler of the next stage with it, and the success
\* handler of the recovering stage is not invoked in that call (success
\* handlers are invoked for the current stage only, and the call never goes
\* back to a stage).
C24_RecoveryFeedsNext ==
    /\ [](\A c \in Slots :
            LET k == calls[c]
                i == k.ev[1].stage
            IN  RecoveredUpstream(k) =>
                    /\ k.st = "fulfilled" /\ k.val = k.ev[1].v
                    /\ k.idx = i + 1
                    /\ i \notin Range(k.slog))
    /\ [][\A c \in Slots :
            LET k  == calls[c]
                k2 == calls'[c]
            IN  StepOf(c) =>
                  /\ k2.idx >= k.idx
                  /\ k2.slog = k.slog \/ k2.slog = Append(k.slog, k.idx)
                  /\ RecoveredUpstream(k) =>
                        /\ k2.ev # <<>>
                        /\ k2.ev[1].handler = "success"
                        /\ k2.ev[1].stage = k.ev[1].stage + 1
                        /\ k2.ev[1].arg = k.ev[1].v
                        /\ k2.slog = Append(k.slog, k.ev[1].stage + 1)]_vars

\* The second request interceptor's error handler returned a value for the
\* error the first had thrown, and the dispatch was invoked with that value;
\* the second interceptor's success handler did not run.
C24_Witness ==
    \E c \in Slots :
        LET k == calls[c]
        IN  /\ k.nreq = 2
            /\ k.chain[1].errorHandler = NoHandler
            /\ k.chain[2].errorHandler # NoHandler
            /\ k.slog = <<1, 3>>
            /\ k.ev # <<>>
            /\ k.ev[1].handler = "success" /\ k.ev[1].stage = 3
            /\ k.ev[1].arg = NewVal(2)

\* C25: in a call none of whose handlers failed, the success handler of each
\* stage is invoked with exactly the value the call holds, which is the value
\* the previous stage's handler returned or its deferred result resolved to
\* (the response of the request primitive, for the dispatch); the call
\* resolves with the last stage's output, which with no response interceptors
\* is the primitive's response itself.
C25_ValuesPassVerbatim ==
    /\ [](\A c \in Slots :
            LET k == calls[c]
            IN  /\ (k.st = "fulfilled" /\ ~k.failed /\ k.ev # <<>>) =>
                      /\ k.ev[Len(k.ev)].t = "return"
                      /\ k.ev[Len(k.ev)].stage = k.idx - 1
                      /\ k.val = k.ev[Len(k.ev)].v
                /\ (Finished(k) /\ ~k.failed) =>
                      /\ k.st = "fulfilled"
                      /\ k.slog = [i \in 1..Len(k.chain) |-> i]
                      /\ Len(k.chain) = k.nreq + 1 =>
                            /\ k.val = k.dres[1].raw
                            /\ k.val = Response(k.sent[1]))
    /\ [][\A c \in Slots :
            LET k  == calls[c]
                k2 == calls'[c]
            IN  (StepOf(c) /\ Running(k) /\ k.st = "fulfilled" /\ ~k.failed) =>
                    /\ k2.ev # <<>>
                    /\ k2.ev[1].handler = "success"
                    /\ k2.ev[1].stage = k.idx
                    /\ k2.ev[1].arg = k.val]_vars

\* A call with one request interceptor and no response interceptor, none of
\* whose handlers failed, resolved with the response of the request primitive.
C25_Witness ==
    \E c \in Slots :
        LET k == calls[c]
        IN  /\ Finished(k) /\ ~k.failed
            /\ k.nreq = 1 /\ Len(k.chain) = 2
            /\ k.val = Response(k.sent[1])
            /\ k.dres[1].st = "fulfilled"

\* The request of call k is in flight and the latest step of the call was
\* the dispatch's, given the envelope the last request stage output.
JustSent(k) ==
    /\ k.st = "pending" /\ k.wait = "fetch"
    /\ Len(k.ev) = 1 /\ k.ev[1].handler = "success"
    /\ k.ev[1].stage = DispatchPos(k)
    /\ k.ev[1].arg.kind = "env"

\* The options passed to the request primitive have the value of every header
\* key of cfg, and of every top-level field of cfg outside `except`.
Honours(options, cfg, except) ==
    /\ \A f \in DOMAIN cfg \ ({"headers"} \cup except) :
          Has(options, f) /\ options[f] = cfg[f]
    /\ \A h \in DOMAIN HeadersOf(cfg) : options["headers"][h] = HeadersOf(cfg)[h]

\* C26, as stated: every top-level field and every header key of the config
\* the last request stage output has that value in the options passed to the
\* request primitive.
C26_Original ==
    \A c \in Slots :
        LET k == calls[c]
        IN  JustSent(k) =>
                Honours(k.sent[Len(k.sent)].options, k.ev[1].arg.config, {})

\* C26, amended: every top-level field other than signal and every header key
\* of the config the last request stage output has that value in the options
\* passed to the request primitive, whatever the instance configuration has
\* for it; signal is the call's own cancellation signal.
C26_InterceptorChangesHonoured ==
    \A c \in Slots :
        LET k == calls[c]
        IN  JustSent(k) =>
                /\ Honours(k.sent[Len(k.sent)].options, k.ev[1].arg.config,
                           {"signal"})
                /\ k.sent[Len(k.sent)].options["signal"] = k.signal

\* A request interceptor assigned a base URL, a timeout and the header A,
\* each of which the instance configuration has too, and the request went out
\* with the interceptor's values.
C26_Witness ==
    \E c \in Slots :
        LET k == calls[c]
        IN  /\ JustSent(k)
            /\ k.nreq >= 1
            /\ Has(config[k.client], "baseURL")
            /\ config[k.client]["baseURL"] = <<"h">>
            /\ config[k.client]["headers"]["A"] = "1"
            /\ config[k.client]["timeout"] = 50
            /\ Has(k.ev[1].arg.config, "baseURL")
            /\ k.ev[1].arg.config["baseURL"] = <<"i">>
            /\ k.sent[1].url = <<"i", "/", "a">>
            /\ k.sent[1].options["baseURL"] = <<"i">>
            /\ k.sent[1].options["timeout"] = 0
            /\ k.sent[1].options["headers"]["A"] = "9"
            /\ k.sent[1].options["headers"]["B"] = "2"

\* C27: over one verb call the request primitive is invoked at most once, and
\* exactly once when the success continuation of the dispatch stage ran, that
\* is when the request side handed the dispatch a fulfilled value.
C27_ExactlyOneRequest ==
    \A c \in Slots :
        LET k == calls[c]
        IN  /\ Len(k.sent) <= 1
            /\ DispatchStarted(k) => Len(k.sent) = 1

\* The stage list made of the request interceptors req, the dispatch and the
\* response interceptors resp, in that order.
StagesOf(req, resp) ==
    [i \in 1..Len(req) |->
        Stage("request", req[i].successHandler, req[i].errorHandler)]
    \o <<Stage("dispatch", "dispatchRequest", NoHandler)>>
    \o [i \in 1..Len(resp) |->
        Stage("response", resp[i].successHandler, resp[i].errorHandler)]

\* C28: the stage list of a call is made of the two interceptor lists as they
\* stand when the verb is invoked, whatever was registered between earlier
\* calls; it stays that list to the end of the call, whatever is registered
\* meanwhile, and every handler the call invokes is of a stage of that list.
C28_ChainAtInvocation ==
    /\ [](\A c \in Slots :
            LET k == calls[c]
            IN  /\ \A n \in 1..Len(k.ev) : k.ev[n].stage \in 1..Len(k.chain)
                /\ \A n \in 1..Len(k.slog) : k.slog[n] \in 1..Len(k.chain)
                /\ k.st # "idle" => k.idx <= Len(k.chain) + 1)
    /\ [][\A c \in Slots :
            LET k  == calls[c]
                k2 == calls'[c]
            IN  /\ k2.no # k.no =>
                    /\ k2.chain = StagesOf(requestInterceptors[k2.client],
                                           responseInterceptors[k2.client])
                    /\ k2.chain = StagesOf(registered[k2.client].request,
                                           registered[k2.client].response)
                /\ k2.no = k.no => k2.chain = k.chain]_vars

\* Two calls in flight: the first was invoked before any registration and has
\* the dispatch alone, the second after a request and a response interceptor
\* were registered and has them; a further response interceptor registered
\* since is in neither.
C28_Witness ==
    /\ Len(responseInterceptors["api"]) = 2
    /\ Len(requestInterceptors["api"]) = 1
    /\ \E c \in Slots, d \in Slots :
          /\ calls[c].no = 1 /\ calls[d].no = 2
          /\ calls[c].st = "pending" /\ calls[c].wait = "fetch"
          /\ calls[d].st = "pending" /\ calls[d].wait = "fetch"
          /\ Len(calls[c].chain) = 1
          /\ Len(calls[d].chain) = 3
          /\ calls[d].slog = <<1, 2>>

\* The base URL of the effective configuration of a dispatch given the
\* envelope env: the envelope's, else the instance's, else the text that the
\* language's concatenation gives for a missing value.
EffectiveBaseURL(k, env) ==
    IF Has(env.config, "baseURL") THEN env.config["baseURL"]
    ELSE IF Has(config[k.client], "baseURL") THEN config[k.client]["baseURL"]
    ELSE StrUndefined

\* C29: the URL the request is issued against is the base URL of the
\* effective configuration followed by the endpoint of the envelope the
\* dispatch was given, character for character.
C29_UrlIsConcatenation ==
    \A c \in Slots :
        LET k   == calls[c]
            env == k.ev[1].arg
        IN  JustSent(k) =>
                k.sent[Len(k.sent)].url = EffectiveBaseURL(k, env) \o env.endPoint

\* A call of /a with a base URL ending in a slash, whose request interceptor
\* returned the endpoint /b: the request went to the base URL followed by /b,
\* both slashes kept.
C29_Witness ==
    \E c \in Slots :
        LET k == calls[c]
        IN  /\ JustSent(k)
            /\ k.endPoint = <<"/", "a">>
            /\ k.tempConfig = Obj1("baseURL", <<"g", "/">>)
            /\ k.ev[1].arg.endPoint = <<"/", "b">>
            /\ k.sent[1].url = <<"g", "/", "/", "b">>

\* The success continuation of the dispatch stage of call k has not run.
DispatchSkipped(k) == k.st # "idle" /\ ~DispatchStarted(k)

\* C30: when the dispatch stage is reached by a rejection, its continuation
\* passes the rejection on unchanged and invokes nothing; a call whose
\* dispatch was passed over this way has issued no request, started no timer
\* and created no cancellation handle, up to its end. (That a response
\* interceptor's error handler may still make such a call resolve is what the
\* witness shows.)
C30_DispatchSkipped ==
    /\ [](\A c \in Slots :
            LET k == calls[c]
            IN  DispatchSkipped(k) =>
                  /\ k.sent = <<>>
                  /\ k.timer = "none"
                  /\ k.signal = 0
                  /\ k.dres = <<>>
                  /\ k.idx > DispatchPos(k) => k.failed)
    /\ [][\A c \in Slots :
            LET k  == calls[c]
                k2 == calls'[c]
            IN  (/\ StepOf(c) /\ k.st = "rejected" /\ Running(k)
                 /\ k.idx = DispatchPos(k)) =>
                    /\ k2.st = "rejected" /\ k2.val = k.val
                    /\ k2.idx = k.idx + 1
                    /\ k2.ev = <<>>
                    /\ k2.slog = k.slog
                    /\ DispatchSkipped(k2)
                    /\ aborted' = aborted]_vars

\* A request interceptor threw, the dispatch was passed over with no request
\* and no timer, and the error handler of a response interceptor returned a
\* value with which the call resolved.
C30_Witness ==
    \E c \in Slots :
        LET k == calls[c]
        IN  /\ Finished(k) /\ k.st = "fulfilled"
            /\ DispatchSkipped(k)
            /\ k.slog = <<1>>
            /\ k.sent = <<>> /\ k.timer = "none"
            /\ Len(k.chain) = 3
            /\ k.ev # <<>>
            /\ k.ev[1].handler = "error" /\ k.ev[1].stage = 3
            /\ k.ev[1].arg = ThrownBy(1)
            /\ k.val = NewVal(3)

\* Call k waits for a deferred value that a handler of its current stage
\* returned.
Hangs(k) == k.st = "pending" /\ k.wait \in {"success", "error"}

\* C31: while a call waits for a deferred value that a handler of a request
\* or response interceptor returned, nothing but the settling of that value
\* makes the call go on, whatever its timeout is and whatever its timer does,
\* and while it waits in a response stage no timer is pending for it.
C31_TimeoutBoundsDispatchOnly ==
    /\ [](\A c \in Slots :
            LET k == calls[c]
            IN  (Hangs(k) /\ CurStage(k).kind = "response") =>
                    k.timer # "pending")
    /\ [][\A c \in Slots :
            LET k  == calls[c]
                k2 == calls'[c]
            IN  (Hangs(k) /\ k2.no = k.no) =>
                    \/ /\ k2.st = "pending" /\ k2.wait = k.wait
                       /\ k2.idx = k.idx
                    \/ /\ Len(k2.ev) = 1 /\ k2.ev[1].handler = "deferred"
                       /\ k2.ev[1].stage = k.idx]_vars

\* C32: the signal passed to the request primitive is the call's own
\* controller's, which no other call has and which is not the signal the
\* instance config, the per-call config or a request interceptor supplied;
\* the primitive is cancelled only after the call's timer fired.
C32_OwnFreshSignal ==
    \A c \in Slots :
        LET k == calls[c]
        IN  k.sent # <<>> =>
                /\ \A i \in 1..Len(k.sent) :
                      /\ k.sent[i].options["signal"] = k.signal
                      /\ k.sent[i].options["signal"] # CallerSignal
                /\ \A d \in Slots \ {c} :
                      calls[d].sent # <<>> => calls[d].signal # k.signal
                /\ (k.signal \in aborted) => k.timer = "fired"
                /\ (k.dres # <<>> /\ k.dres[1].raw = AbortError) =>
                      k.dres[1].timer = "fired"

\* The instance config and the per-call config have a signal of the caller's,
\* a request interceptor assigned it to the envelope's config as well, the
\* caller aborted it, and the request is in flight with the call's own signal.
C32_Witness ==
    \E c \in Slots :
        LET k == calls[c]
        IN  /\ JustSent(k)
            /\ k.nreq >= 1
            /\ Has(createArg[k.client], "signal")
            /\ Has(k.tempConfig, "signal")
            /\ k.ev[1].arg.config["signal"] = CallerSignal
            /\ CallerSignal \in aborted
            /\ k.sent[1].options["signal"] = k.signal
            /\ k.timer = "pending"

\* C33: every header key of the client's configuration is a header key of the
\* options passed to the request primitive, whatever config the last request
\* stage output.
C33_InstanceHeadersSent ==
    \A c \in Slots :
        LET k == calls[c]
        IN  \A i \in 1..Len(k.sent) :
                \A h \in DOMAIN HeadersOf(config[k.client]) :
                    Has(HeadersOf(k.sent[i].options), h)

\* A request interceptor deleted the header A, which the instance
\* configuration has, from the envelope's headers, and the request went out
\* with the instance's value of A.
C33_Witness ==
    \E c \in Slots :
        LET k == calls[c]
        IN  /\ JustSent(k)
            /\ k.nreq >= 1
            /\ Has(HeadersOf(config[k.client]), "A")
            /\ Has(k.ev[1].arg.config, "headers")
            /\ ~Has(HeadersOf(k.ev[1].arg.config), "A")
            /\ Has(HeadersOf(k.ev[1].arg.config), "B")
            /\ HeadersOf(k.sent[1].options)["A"] = HeadersOf(config[k.client])["A"]

C35_SecondMergeIdempotent ==
    \A c \in Slots :
        LET k     == calls[c]
            first == SeededConfig(k)
        IN  SentUnchanged(k) =>
                /\ k.sent[1].options = Spread(first, Obj1("signal", k.signal))
                /\ mergeConfigs(config[k.client], first) = first

\* A request is in flight, unchanged by handlers, for a client with headers A
\* and B and a per-call config with headers B and C: the options have the
\* instance's A, the per-call B and C and the default Content-Type.
C35_Witness ==
    \E c \in Slots :
        LET k == calls[c]
        IN  /\ SentUnchanged(k)
            /\ HeadersOf(createArg[k.client]) = HeadersAB
            /\ HeadersOf(k.tempConfig) = HeadersBC
            /\ Has(createArg[k.client], "opts")
            /\ HeadersOf(k.sent[1].options) =
                  Spread(Spread(HeadersOf(DefaultConfig), HeadersAB), HeadersBC)
            /\ k.sent[1].options["opts"] = OptsXY

====
